---- MODULE Spec2Model ----
(***************************************************************************)
(* A model of vcflib: the Sharder (sharder.py), the BGZF codec (bgzf.py),  *)
(* the binning index (tabix.py), the IDX index (tribble.py) and the parts  *)
(* of the VCF layer (vcf.py) that tie them together.                       *)
(*                                                                         *)
(* Each subsystem has its own variables and its own specification; a       *)
(* specification keeps the variables of the other subsystems at their      *)
(* idle values.                                                            *)
(***************************************************************************)
EXTENDS Integers, Sequences, FiniteSets, TLC

Min(a, b) == IF a < b THEN a ELSE b
Max(a, b) == IF a > b THEN a ELSE b
SetMin(S) == CHOOSE x \in S : \A y \in S : x <= y
SetMax(S) == CHOOSE x \in S : \A y \in S : y <= x

RECURSIVE SumSeq(_)
SumSeq(s) == IF s = <<>> THEN 0 ELSE Head(s) + SumSeq(Tail(s))

RECURSIVE Flatten(_)
Flatten(ss) == IF ss = <<>> THEN <<>> ELSE Head(ss) \o Flatten(Tail(ss))

(***************************************************************************)
(* Bounds of the model.                                                    *)
(***************************************************************************)
\* longest interval list given to Sharder.cut
MaxIntvs == 2
\* largest coordinate of an interval given to Sharder.cut
MaxCoord == 4
\* largest step given to Sharder.cut
MaxStep == 3
\* most records of an input VCF of a sharded run
MaxRecs == 3
\* largest worker count of a sharded run
MaxProc == 2
\* BGZFile.block_size, 65280 in the source: scaled down so that writes fill blocks
BlockSize == 2
\* most bytes written to a BGZF file, and most bytes of one write
MaxData == 3
MaxWrite == 3
\* flush is called only while the file has fewer blocks than this
MaxBlocks == 2
\* most exceptions raised by map functions in one run
MaxFaults == 1
\* most calls of close
MaxCloses == 2
\* largest size given to read
MaxRead == 2
\* most writes after close
MaxLate == 2
\* most intervals inserted into an IntervalTree on its own, and their largest end
MaxTreeIntvs == 3
MaxTreeCoord == 4
\* most records emitted to a writer with a binning index
MaxAdds == 3
\* most records emitted to a writer with a Tribble index
MaxTrAdds == 5
\* MAX_FEATURES_PER_INTERVAL, 600 in the source: the records of one tree interval
IntervalDensity == 2
\* MAX_FEATURES_PER_BIN, 100 in the source: the records a linear bin should hold
BinDensity == 2

VARIABLES
    \* Sharder.cut: its arguments and the list of shards it has yielded
    cutIntvs, cutStep, cutOut,
    \* a sharded run: the input VCF, the arguments of cut and of Sharder()
    vcfIn, step, nproc,
    \* the shards (the tasks), the number handed to workers, each worker's task
    shards, ntask, running,
    \* results in the order imap_unordered delivers them
    resq,
    \* Sharder.run's locals q and idx, its position, and the reduce/accumulate log
    q, idx, pc, log,
    \* the pool's state, the error Sharder.run ended with, and the worker exceptions
    \* it.next has raised at the driver
    pool, err, thrown,
    \* the temporary files of the per-shard writers that exist, each named by its
    \* shard index and the number of its sub-interval
    tmpFiles,
    \* the output VCF: lines written, and its index builder's ci and pos
    out,
    \* a binning index: the builder, the writer's phase, the records emitted with
    \* their offsets before and after, the saved index file, the loaded index
    tb, tbPhase, tbRecs, tbFile, tbRd,
    \* VCF_INDEX_TYPE when the writer was opened, the header's largest contig length
    tbCfg, tbLen,
    \* the add that each index builder refused, if it refused one
    tbRejected, trRejected,
    \* a Tribble index: the builder, the writer's phase, the records emitted, the
    \* saved index file, the loaded index
    tr, trPhase, trRecs, trFile, trRd,
    \* BGZF: the writer (with its file), all the data written, the calls of close, the
    \* file as the first close left it, and the readers A and B
    bgw, written, closes, atClose, rdA, rdB,
    \* the writes made after close, and what a reader got from a damaged copy of the file
    late, dmg,
    \* VCF.open: the path and the mode given to VCF(), the files that exist, and what
    \* open has left (fp, index, the exception)
    opPath, opMode, opFiles, opRes,
    \* an IntervalTree on its own: the tree, and whether update has been called
    itree, itPhase

cutVars == <<cutIntvs, cutStep, cutOut>>
shVars == <<vcfIn, step, nproc, shards, ntask, running, resq, q, idx, pc, log, out, pool, err, thrown, tmpFiles>>
bgVars == <<bgw, written, closes, atClose, rdA, rdB, late, dmg>>
tbVars == <<tb, tbPhase, tbRecs, tbFile, tbRd, tbCfg, tbLen, tbRejected>>
trVars == <<tr, trPhase, trRecs, trFile, trRd, trRejected>>
ixVars == <<tbVars, trVars>>
opVars == <<opPath, opMode, opFiles, opRes>>
itVars == <<itree, itPhase>>
vars == <<cutVars, shVars, bgVars, ixVars, opVars, itVars>>

\* what the actions of one subsystem leave alone
cutOthers == <<shVars, bgVars, ixVars, opVars, itVars>>
shOthers == <<cutVars, bgVars, ixVars, opVars, itVars>>
bgOthers == <<cutVars, shVars, ixVars, opVars, itVars>>
ixOthers == <<cutVars, shVars, bgVars, opVars, itVars>>
opOthers == <<cutVars, shVars, bgVars, ixVars, itVars>>
itOthers == <<cutVars, shVars, bgVars, ixVars, opVars>>

(***************************************************************************)
(* Sharder.cut                                                             *)
(***************************************************************************)
\* a cut that never splits an interval at the step
CutNWhole(s, e, stp, size) == e - s

\* n = min(e-s, step-size)
CutN(s, e, stp, size) == Min(e - s, stp - size)

\* The generator, run to its end: the list of the lists it yields.
\* k is the index of the interval of the for loop, s its running start.
RECURSIVE CutLoop(_, _, _, _, _, _, _)
CutLoop(intvs, k, s, shds, size, stp, yielded) ==
    IF k > Len(intvs)
    THEN IF shds # <<>> THEN Append(yielded, shds) ELSE yielded
    ELSE LET c == intvs[k][1]
             e == intvs[k][3]
         IN  IF s < e
             THEN LET n == CutN(s, e, stp, size)
                      shds1 == Append(shds, <<c, s, s + n>>)
                  IN  IF size + n = stp
                      THEN CutLoop(intvs, k, s + n, <<>>, 0, stp, Append(yielded, shds1))
                      ELSE CutLoop(intvs, k, s + n, shds1, size + n, stp, yielded)
             ELSE IF k + 1 > Len(intvs)
                  THEN CutLoop(intvs, k + 1, 0, shds, size, stp, yielded)
                  ELSE CutLoop(intvs, k + 1, intvs[k + 1][2], shds, size, stp, yielded)

\* total length of a shard (a list of sub-intervals)
RECURSIVE ShardLen(_)
ShardLen(shd) ==
    IF shd = <<>> THEN 0 ELSE (Head(shd)[3] - Head(shd)[2]) + ShardLen(Tail(shd))

\* a cut without the final "if shds: yield shds"
CutDropsRemainder(intvs, stp) ==
    IF intvs = <<>> THEN <<>>
    ELSE LET y == CutLoop(intvs, 1, intvs[1][2], <<>>, 0, stp, <<>>)
         IN  IF y # <<>> /\ ShardLen(y[Len(y)]) < stp THEN SubSeq(y, 1, Len(y) - 1) ELSE y

Cut(intvs, stp) ==
    IF intvs = <<>> THEN <<>>
    ELSE CutLoop(intvs, 1, intvs[1][2], <<>>, 0, stp, <<>>)

CutContigs == {"c1", "c2"}
CutIntervals == {<<c, s, e>> : c \in CutContigs, s \in 0..MaxCoord, e \in 0..MaxCoord}
CutInputs == UNION {[1..n -> {i \in CutIntervals : i[2] <= i[3]}] : n \in 0..MaxIntvs}

NotCut == <<"not cut">>

CutInit ==
    /\ cutIntvs \in CutInputs
    /\ cutStep \in 1..MaxStep
    /\ cutOut = NotCut

CutIdle ==
    /\ cutIntvs = <<>>
    /\ cutStep = 1
    /\ cutOut = NotCut

DoCut ==
    /\ cutOut = NotCut
    /\ cutOut' = Cut(cutIntvs, cutStep)
    /\ UNCHANGED <<cutIntvs, cutStep>>
    /\ UNCHANGED cutOthers

NextCut == DoCut

(***************************************************************************)
(* A sharded run: Sharder.run over the shards of cut, with a reader and a  *)
(* writer argument (example/filter_dp.py).                                 *)
(***************************************************************************)
\* The contigs of the input's header, with their lengths.
Contigs == <<"c1", "c2">>
ContigLen == [c \in {"c1", "c2"} |-> IF c = "c1" THEN 4 ELSE 2]
ContigIntvs == [k \in 1..Len(Contigs) |-> <<Contigs[k], 0, ContigLen[Contigs[k]]>>]
ContigIdx(c) == CHOOSE k \in 1..Len(Contigs) : Contigs[k] = c

Rec(c, p, e, k) == [chrom |-> c, pos |-> p, end |-> e, keep |-> k]

\* The records an input is made of, in coordinate order; keep is the map-function's
\* verdict on the record (INFO/DP >= min_dp in the example).
RecUniverse ==
    << Rec("c1", 0, 1, TRUE), Rec("c1", 1, 3, TRUE), Rec("c1", 1, 2, FALSE),
       Rec("c1", 2, 3, TRUE), Rec("c1", 3, 4, TRUE),
       Rec("c2", 0, 2, TRUE), Rec("c2", 1, 2, FALSE) >>

\* coordinate-sorted inputs: the records of a subset of the universe, in its order
RECURSIVE PickSeq(_, _)
PickSeq(S, k) ==
    IF k > Len(RecUniverse) THEN <<>>
    ELSE IF k \in S THEN <<RecUniverse[k]>> \o PickSeq(S, k + 1)
         ELSE PickSeq(S, k + 1)

VcfInputs == {PickSeq(S, 1) : S \in {T \in SUBSET (1..Len(RecUniverse)) : Cardinality(T) <= MaxRecs}}

----------------------------------------------------------------------------
\* VCFReader.__iter__: the ranges of index.query(c, s, e). The input is small enough
\* to lie in one block, so the query returns the one chunk of the contig's records,
\* here in units of lines: (lines before the contig's first record, lines up to and
\* including its last).
ReaderRanges(file, c) ==
    LET I == {i \in 1..Len(file) : file[i].chrom = c}
    IN  IF I = {} THEN <<>> ELSE << <<SetMin(I) - 1, SetMax(I)>> >>

\* VCFReader.first from line i of range r: the line number of the record it returns,
\* 0 when it raises StopIteration.
RECURSIVE ReaderFirst(_, _, _, _, _, _)
ReaderFirst(file, i, r, c, s, e) ==
    IF i > Len(file) THEN 0
    ELSE LET v == file[i]
         IN  IF v.chrom # c \/ v.pos >= e THEN 0
             ELSE IF v.end <= s
                  THEN IF i >= r[2] THEN 0
                       ELSE ReaderFirst(file, i + 1, r, c, s, e)
                  ELSE i

\* VCFReader.__next__ once ranges is None: the records from line i on, up to the
\* first of another contig or at or past the shard's end.
RECURSIVE ReaderRest(_, _, _, _)
ReaderRest(file, i, c, e) ==
    IF i > Len(file) THEN <<>>
    ELSE LET v == file[i]
         IN  IF v.chrom # c \/ v.pos >= e THEN <<>>
             ELSE <<v>> \o ReaderRest(file, i + 1, c, e)

\* the records a VCFReader(vcf, c, s, e) yields
ReaderYield(file, cse) ==
    LET rs == ReaderRanges(file, cse[1])
    IN  IF rs = <<>> THEN <<>>
        ELSE LET f == ReaderFirst(file, rs[1][1] + 1, rs[1], cse[1], cse[2], cse[3])
             IN  IF f = 0 THEN <<>>
                 ELSE <<file[f]>> \o ReaderRest(file, f + 1, cse[1], cse[3])

\* VCFWriter.emit: whether the shard's temporary writer writes v
WriterEmits(cse, v) ==
    ~ (v.chrom # cse[1] \/ v.pos >= cse[3] \/ v.end <= cse[2])

\* the map-function of the example on one projected reader and writer: the lines of
\* the temporary file
MapFun(file, cse) ==
    LET Emitted(v) == v.keep /\ WriterEmits(cse, v)
    IN  SelectSeq(ReaderYield(file, cse), Emitted)

\* apply: one (rv, av, kw) per sub-interval of the shard; of these the model keeps
\* the writer's payload, the temporary file
Apply(file, shd) == [k \in 1..Len(shd) |-> MapFun(file, shd[k])]

----------------------------------------------------------------------------
NoContig == "none"

\* VCF.__accum__ on one line: the line is written, then index.add(chrom, pos, end, off)
\* runs up to its assertion (Tabix.add and TribbleIndex.add alike)
AccumLine(o, v) ==
    LET ci1 == IF o.ci # NoContig /\ o.ci # v.chrom THEN NoContig ELSE o.ci
        pos1 == IF ci1 = NoContig THEN 0 ELSE o.pos
    IN  IF v.pos >= pos1
        THEN [lines |-> Append(o.lines, v), ci |-> v.chrom, pos |-> v.pos, failed |-> FALSE]
        ELSE [lines |-> Append(o.lines, v), ci |-> v.chrom, pos |-> pos1, failed |-> TRUE]

\* VCF.__accum__: the lines of the temporary file in turn, up to a failed assertion
RECURSIVE Accum(_, _)
Accum(o, tmpf) ==
    IF tmpf = <<>> \/ o.failed THEN o
    ELSE Accum(AccumLine(o, Head(tmpf)), Tail(tmpf))

\* the body of "for rv, av, kw in ret": reduce, then accumulate, per sub-interval
RECURSIVE ReduceShard(_, _, _, _)
ReduceShard(st, i, ret, k) ==
    IF k > Len(ret) \/ st.out.failed THEN st
    ELSE ReduceShard([st EXCEPT !.log = st.log \o << <<"reduce", i>>, <<"accum", i>> >>,
                                !.out = Accum(st.out, ret[k])],
                     i, ret, k + 1)

\* a heap whose head is its largest entry
HeapLast(h) == CHOOSE r \in h : \A r2 \in h : r2[1] <= r[1]

\* the head of the heap
HeapHead(h) == CHOOSE r \in h : \A r2 \in h : r[1] <= r2[1]

\* a loop that pops the head whatever its index
DrainAnyHead(h, i) == h # {}

\* while q and q[0][0] == idx
DrainCond(h, i) == h # {} /\ HeapHead(h)[1] = i

\* the inner while loop of Sharder.run, up to an exception of an accumulate step
RECURSIVE Drain(_)
Drain(st) ==
    IF st.out.failed \/ ~ DrainCond(st.q, st.idx) THEN st
    ELSE LET r == HeapHead(st.q)
             st1 == ReduceShard([st EXCEPT !.q = st.q \ {r}], r[1], r[2], 1)
         IN  IF st1.out.failed THEN st1
             ELSE Drain([st1 EXCEPT !.idx = st.idx + 1])

\* the temporary files of shard i's writer for its first n sub-intervals: apply
\* projects the writer, VCFWriter.__init__ creates the file, per sub-interval
TmpOf(i, n) == {<<i, k>> : k \in 1..n}

\* the files VCF.__accum__ has unlinked in one pass of the driver's loop that began
\* at index idx0 and left st: those of the shards popped, and of a shard whose
\* accumulation failed those of the sub-intervals before the failing one
Unlinked(idx0, st) ==
    UNION {TmpOf(i, Len(shards[i + 1])) : i \in idx0..(st.idx - 1)}
    \cup (IF st.out.failed
          THEN TmpOf(st.idx, Cardinality({k \in 1..Len(st.log) : st.log[k] = <<"accum", st.idx>>}) - 1)
          ELSE {})

\* the exceptions a map function raises: one the driver has no handler for, and the
\* two it.next itself raises
FaultKinds == {"ValueError", "StopIteration", "TimeoutError"}

\* the exceptions of map functions so far, delivered to the driver or not yet
FaultCount == Len(thrown) + Cardinality({k \in 1..Len(resq) : resq[k][3] # ""})

\* What the driver does with a worker's exception or with an interrupt does not
\* depend on the records: the runs in which a map function raises or the driver is
\* interrupted are those over an input without records.
FaultRun == vcfIn = <<>>

ShInit ==
    /\ vcfIn \in VcfInputs
    /\ step \in 1..MaxStep
    /\ nproc \in 1..MaxProc
    /\ shards = Cut(ContigIntvs, step)
    /\ ntask = 0
    /\ running = [w \in 1..nproc |-> -1]
    /\ resq = <<>>
    /\ q = {}
    /\ idx = 0
    /\ pc = "run"
    /\ log = <<>>
    /\ out = [lines |-> <<>>, ci |-> NoContig, pos |-> 0, failed |-> FALSE]
    /\ pool = "run"
    /\ err = ""
    /\ thrown = <<>>
    /\ tmpFiles = {}

ShIdle ==
    /\ vcfIn = <<>>
    /\ step = 1
    /\ nproc = 1
    /\ shards = <<>>
    /\ ntask = 0
    /\ running = [w \in 1..1 |-> -1]
    /\ resq = <<>>
    /\ q = {}
    /\ idx = 0
    /\ pc = "idle"
    /\ log = <<>>
    /\ out = [lines |-> <<>>, ci |-> NoContig, pos |-> 0, failed |-> FALSE]
    /\ pool = "run"
    /\ err = ""
    /\ thrown = <<>>
    /\ tmpFiles = {}

\* a free worker of the pool takes the next task (chunksize=1)
WorkerTake(w) ==
    /\ pc = "run"
    /\ running[w] = -1
    /\ ntask < Len(shards)
    /\ running' = [running EXCEPT ![w] = ntask]
    /\ ntask' = ntask + 1
    /\ UNCHANGED <<vcfIn, step, nproc, shards, resq, q, idx, pc, log, out>>
    /\ UNCHANGED <<pool, err, thrown, tmpFiles>>
    /\ UNCHANGED shOthers

\* a worker returns from apply: the result joins those imap_unordered will deliver
WorkerReturn(w) ==
    /\ pc = "run"
    /\ running[w] # -1
    /\ resq' = Append(resq, <<running[w], Apply(vcfIn, shards[running[w] + 1]), "">>)
    /\ running' = [running EXCEPT ![w] = -1]
    /\ tmpFiles' = tmpFiles \cup TmpOf(running[w], Len(shards[running[w] + 1]))
    /\ UNCHANGED <<vcfIn, step, nproc, shards, ntask, q, idx, pc, log, out>>
    /\ UNCHANGED <<pool, err, thrown>>
    /\ UNCHANGED shOthers

\* the map function raises in a worker: apply prints the traceback and raises again,
\* and the pool delivers the exception in place of the task's result
WorkerRaise(w, kind) ==
    /\ pc = "run"
    /\ running[w] # -1
    /\ FaultCount < MaxFaults
    /\ FaultRun
    /\ resq' = Append(resq, <<running[w], <<>>, kind>>)
    /\ running' = [running EXCEPT ![w] = -1]
    /\ \E n \in 1..Len(shards[running[w] + 1]) : tmpFiles' = tmpFiles \cup TmpOf(running[w], n)
    /\ UNCHANGED <<vcfIn, step, nproc, shards, ntask, q, idx, pc, log, out>>
    /\ UNCHANGED <<pool, err, thrown>>
    /\ UNCHANGED shOthers

\* one pass of the driver's loop with a result at hand: heappush, then the inner loop
DriverResult ==
    /\ pc = "run"
    /\ resq # <<>>
    /\ Head(resq)[3] = ""
    /\ LET r == <<Head(resq)[1], Head(resq)[2]>>
           st == Drain([q |-> q \cup {r}, idx |-> idx, log |-> log, out |-> out])
       IN  /\ q' = st.q
           /\ idx' = st.idx
           /\ log' = st.log
           /\ out' = st.out
           /\ pc' = IF st.out.failed THEN "raised" ELSE "run"
           /\ err' = IF st.out.failed THEN "AssertionError" ELSE ""
           /\ tmpFiles' = tmpFiles \ Unlinked(idx, st)
    /\ resq' = Tail(resq)
    /\ UNCHANGED <<vcfIn, step, nproc, shards, ntask, running, pool, thrown>>
    /\ UNCHANGED shOthers

\* one pass of the driver's loop in which it.next raises the exception of a worker:
\* StopIteration and TimeoutError meet the handlers meant for it.next's own, any
\* other kind leaves run; pool.close and pool.join follow a break only
DriverNextRaises ==
    /\ pc = "run"
    /\ resq # <<>>
    /\ Head(resq)[3] # ""
    /\ LET kind == Head(resq)[3]
       IN  /\ thrown' = Append(thrown, <<Head(resq)[1], kind>>)
           /\ IF kind = "StopIteration"
              THEN IF q = {}
                   THEN pc' = "done" /\ err' = "" /\ pool' = "close"
                   ELSE pc' = "raised" /\ err' = "AssertionError" /\ pool' = pool
              ELSE IF kind = "TimeoutError"
              THEN UNCHANGED <<pc, err, pool>>
              ELSE pc' = "raised" /\ err' = kind /\ pool' = pool
    /\ resq' = Tail(resq)
    /\ UNCHANGED <<vcfIn, step, nproc, shards, ntask, running, q, idx, log, out>>
    /\ UNCHANGED tmpFiles
    /\ UNCHANGED shOthers

\* KeyboardInterrupt in it.next: pool.terminate(), pool.join(), raise
DriverInterrupt ==
    /\ pc = "run"
    /\ FaultRun
    /\ pool' = "terminate"
    /\ err' = "KeyboardInterrupt"
    /\ pc' = "raised"
    /\ UNCHANGED <<vcfIn, step, nproc, shards, ntask, running, resq, q, idx, log, out>>
    /\ UNCHANGED <<thrown, tmpFiles>>
    /\ UNCHANGED shOthers

\* it.next raises StopIteration: every task's result has been delivered
DriverStop ==
    /\ pc = "run"
    /\ resq = <<>>
    /\ ntask = Len(shards)
    /\ \A w \in 1..nproc : running[w] = -1
    /\ pc' = IF q = {} THEN "done" ELSE "raised"
    /\ err' = IF q = {} THEN "" ELSE "AssertionError"
    /\ pool' = IF q = {} THEN "close" ELSE pool
    /\ UNCHANGED <<vcfIn, step, nproc, shards, ntask, running, resq, q, idx, log, out>>
    /\ UNCHANGED <<thrown, tmpFiles>>
    /\ UNCHANGED shOthers

NextSharder ==
    \/ \E w \in 1..nproc : WorkerTake(w)
    \/ \E w \in 1..nproc : WorkerReturn(w)
    \/ \E w \in 1..nproc, kind \in FaultKinds : WorkerRaise(w, kind)
    \/ DriverResult
    \/ DriverNextRaises
    \/ DriverInterrupt
    \/ DriverStop

(***************************************************************************)
(* The BGZF codec: BGZFile in write mode, then two readers of the file it  *)
(* wrote.                                                                  *)
(***************************************************************************)
\* BGZFile.max_block_size
MaxBlockSize == 65536

\* data[a:b]
Slice(s, a, b) == SubSeq(s, a + 1, Min(b, Len(s)))

\* zlib's raw deflate of one block, as a stand-in that is no identity: a leading and a
\* trailing byte around the recoded payload; the empty payload deflates to 03 00, the
\* body of the EOF block
Deflate(d) == <<3>> \o [i \in 1..Len(d) |-> 255 - d[i]] \o <<0>>

\* zobj.decompress(body, max_block_size) + zobj.flush()
Inflate(body) ==
    LET n == Min(Len(body) - 2, MaxBlockSize)
    IN  [i \in 1..n |-> 255 - body[i + 1]]

\* zlib.crc32 & 0xffffffff, as a stand-in: a position-weighted sum, 0 for no data
Crc32(d) == SumSeq([i \in 1..Len(d) |-> i * d[i]])

\* one block as _write_block lays it out: the 18-byte header with BSIZE-1, the body,
\* then CRC32 and ISIZE
MkBlock(d) ==
    [length |-> Len(Deflate(d)) + 18 + 8, body |-> Deflate(d),
     crc |-> Crc32(d), isize |-> Len(d)]

\* the 28 bytes _write_eof writes: BSIZE-1 = 27, body 03 00, CRC32 0, ISIZE 0
EofBlock == [length |-> 28, body |-> <<3, 0>>, crc |-> 0, isize |-> 0]

\* the file offset at which block k of the file starts, and the file's size
FileOff(file, k) == SumSeq([j \in 1..(k - 1) |-> file[j].length])
FileSize(file) == FileOff(file, Len(file) + 1)

----------------------------------------------------------------------------
\* BGZFile.__init__ in write mode; file is the underlying file as a list of blocks,
\* neof counts the calls of _write_eof
FreshWriter ==
    [file |-> <<>>, block |-> <<>>, blkoff |-> 0, blkend |-> 0, pos |-> 0,
     open |-> TRUE, neof |-> 0, err |-> ""]

\* BGZFile._write_block; after close self.file is None and self.file.write raises
\* before the block is reset
WriteBlock(w) ==
    LET b == MkBlock(w.block)
    IN  IF ~ w.open THEN [w EXCEPT !.err = "AttributeError"]
        ELSE [w EXCEPT !.file = Append(w.file, b), !.block = <<>>,
                       !.blkoff = w.blkoff + b.length, !.blkend = w.blkoff + b.length]

\* a write that copies from the start of data whatever ptr is
BlockAppendFromStart(block, data, ptr, n) == block \o Slice(data, 0, n)

\* self.block += data[ptr:ptr+n]
BlockAppend(block, data, ptr, n) == block \o Slice(data, ptr, ptr + n)

\* the while loop of BGZFile.write
RECURSIVE WriteLoop(_, _, _)
WriteLoop(w, data, ptr) ==
    IF ptr >= Len(data) THEN w
    ELSE LET n == Min(BlockSize - Len(w.block), Len(data) - ptr)
             w1 == [w EXCEPT !.block = BlockAppend(w.block, data, ptr, n)]
             w2 == IF Len(w1.block) >= BlockSize THEN WriteBlock(w1) ELSE w1
         IN  IF w2.err # "" THEN w2 ELSE WriteLoop(w2, data, ptr + n)

\* BGZFile.write: _checkWritable passes in write mode, open or closed
WriteOp(w, data) ==
    LET w1 == WriteLoop([w EXCEPT !.err = ""], data, 0)
    IN  IF w1.err # "" THEN w1
        ELSE [w1 EXCEPT !.pos = w1.blkoff * 65536 + Len(w1.block)]

\* BGZFile.flush of an open writer
FlushOp(w) ==
    LET w1 == WriteBlock(w)
    IN  [w1 EXCEPT !.pos = w1.blkoff * 65536]

\* BGZFile._write_eof
WriteEof(w) == [w EXCEPT !.file = Append(w.file, EofBlock), !.neof = w.neof + 1]

\* a close that leaves the file object in place
CloseOpStaysOpen(w) ==
    IF ~ w.open THEN w ELSE WriteEof(FlushOp(w))

\* BGZFile.close
CloseOp(w) ==
    IF ~ w.open THEN w
    ELSE [WriteEof(FlushOp(w)) EXCEPT !.open = FALSE]

----------------------------------------------------------------------------
\* self.block = None: a value no list of bytes equals
NoBlock == <<-1>>

\* BGZFile.__init__ in read mode
FreshReader == [pos |-> 0, blkoff |-> 0, blkend |-> 0, block |-> NoBlock]

\* a seek that keeps only the block part of the offset
SeekOpBlockStart(r, offset) ==
    [r EXCEPT !.pos = (offset \div 65536) * 65536,
              !.block = IF r.pos \div 65536 # offset \div 65536 THEN NoBlock ELSE r.block]

\* BGZFile.seek(offset)
SeekOp(r, offset) ==
    [r EXCEPT !.pos = offset,
              !.block = IF r.pos \div 65536 # offset \div 65536 THEN NoBlock ELSE r.block]

\* BGZFile._read_block(offset): ok is its return value, err an IOError
ReadBlock(file, r, offset) ==
    IF offset >= FileSize(file)
    THEN [ok |-> FALSE, err |-> FALSE, r |-> r]
    ELSE LET K == {k \in 1..Len(file) : FileOff(file, k) = offset}
         IN  IF K = {}
             THEN [ok |-> FALSE, err |-> TRUE, r |-> r]
             ELSE LET b == file[CHOOSE k \in K : TRUE]
                      d == Inflate(b.body)
                  IN  IF Len(d) # b.isize
                      THEN [ok |-> FALSE, err |-> TRUE, r |-> [r EXCEPT !.block = d]]
                      ELSE [ok |-> TRUE, err |-> FALSE,
                            r |-> [r EXCEPT !.block = d, !.blkoff = offset,
                                            !.blkend = offset + b.length]]

\* if self.blkoff != blk or self.block is None
NeedBlock(r, blk) == r.blkoff # blk \/ r.block = NoBlock

\* the while loop of BGZFile.read, then self.pos = blk << 16 | off
RECURSIVE ReadLoop(_, _, _, _, _, _)
ReadLoop(file, r, blk, off, size, data) ==
    LET Done(r1, blk1, off1, data1) ==
            [r |-> [r1 EXCEPT !.pos = blk1 * 65536 + off1], data |-> data1, err |-> FALSE]
    IN  IF size = 0 THEN Done(r, blk, off, data)
        ELSE LET rb == IF NeedBlock(r, blk) THEN ReadBlock(file, r, blk)
                       ELSE [ok |-> TRUE, err |-> FALSE, r |-> r]
             IN  IF rb.err THEN [r |-> rb.r, data |-> <<>>, err |-> TRUE]
                 ELSE IF ~ rb.ok THEN Done(rb.r, blk, off, data)
                 ELSE LET b == rb.r.block
                          end == IF size > 0 THEN Min(Len(b), off + size) ELSE Len(b)
                          data1 == data \o Slice(b, off, end)
                      IN  IF end < Len(b) THEN Done(rb.r, blk, end, data1)
                          ELSE ReadLoop(file, rb.r, rb.r.blkend, 0, size - (end - off), data1)

\* BGZFile.read(size)
ReadOp(file, r, size) == ReadLoop(file, r, r.pos \div 65536, r.pos % 65536, size, <<>>)

----------------------------------------------------------------------------
\* The data written is a prefix of a stream of pairwise different bytes, so that a
\* lost, repeated or misplaced byte shows; a write takes the next n bytes of it.
Stream == [i \in 1..MaxData |-> 64 + i]
NextChunk(n) == SubSeq(Stream, Len(written) + 1, Len(written) + n)
ReadSizes == {-1} \cup (1..MaxRead)

\* the bytes of a write that comes after close
LateChunk(n) == [i \in 1..n |-> 33]

\* no damaged copy of the file has been read
NoDamage == [k |-> 0, field |-> "", data |-> <<>>, err |-> FALSE]

\* the file with one trailer field of block k altered
Damage(file, k, field) ==
    IF field = "crc" THEN [file EXCEPT ![k].crc = file[k].crc + 1]
    ELSE [file EXCEPT ![k].isize = file[k].isize + 1]

BgInit ==
    /\ bgw = FreshWriter
    /\ written = <<>>
    /\ closes = 0
    /\ atClose = <<>>
    /\ rdA = FreshReader
    /\ rdB = FreshReader
    /\ late = 0
    /\ dmg = NoDamage

BgIdle ==
    /\ bgw = [FreshWriter EXCEPT !.open = FALSE]
    /\ written = <<>>
    /\ closes = MaxCloses + 1
    /\ atClose = <<>>
    /\ rdA = FreshReader
    /\ rdB = FreshReader
    /\ late = 0
    /\ dmg = NoDamage

\* write(d) on the open writer, d the next n bytes
BgWrite(n) ==
    /\ bgw.open
    /\ Len(written) + n <= MaxData
    /\ bgw' = WriteOp(bgw, NextChunk(n))
    /\ written' = written \o NextChunk(n)
    /\ UNCHANGED <<closes, atClose, rdA, rdB, late, dmg>>
    /\ UNCHANGED bgOthers

\* flush() on the open writer
BgFlush ==
    /\ bgw.open
    /\ Len(bgw.file) < MaxBlocks
    /\ bgw' = FlushOp(bgw)
    /\ UNCHANGED <<written, closes, atClose, rdA, rdB, late, dmg>>
    /\ UNCHANGED bgOthers

\* close(), the first or a later one; atClose keeps the file as the first close left it
BgClose ==
    /\ closes < MaxCloses
    /\ bgw' = CloseOp(bgw)
    /\ closes' = closes + 1
    /\ atClose' = IF closes = 0 THEN bgw'.file ELSE atClose
    /\ UNCHANGED <<written, rdA, rdB, late, dmg>>
    /\ UNCHANGED bgOthers

\* the file is complete and open for reading
Readable == closes \in 1..MaxCloses /\ ~ bgw.open

\* Readers A and B, the closed writer and the reader of a damaged copy are objects
\* that share nothing but the file, which none of them changes; runs in which A and
\* B read are explored apart from runs with writes after close or a damaged copy.
Undisturbed == late = 0 /\ dmg = NoDamage
Unread == rdA = FreshReader /\ rdB = FreshReader

\* read(n) on reader A
BgRead(n) ==
    /\ Readable
    /\ Undisturbed
    /\ rdA' = ReadOp(bgw.file, rdA, n).r
    /\ UNCHANGED <<bgw, written, closes, atClose, rdB, late, dmg>>
    /\ UNCHANGED bgOthers

\* reader A seeks to the offset tell() returns on reader B
BgSeek ==
    /\ Readable
    /\ Undisturbed
    /\ rdA' = SeekOp(rdA, rdB.pos)
    /\ UNCHANGED <<bgw, written, closes, atClose, rdB, late, dmg>>
    /\ UNCHANGED bgOthers

\* read(n) on reader B, which only ever reads on from offset 0
BgSeqRead(n) ==
    /\ Readable
    /\ Undisturbed
    /\ rdB' = ReadOp(bgw.file, rdB, n).r
    /\ UNCHANGED <<bgw, written, closes, atClose, rdA, late, dmg>>
    /\ UNCHANGED bgOthers

\* reader B is opened anew
BgSeqReopen ==
    /\ Readable
    /\ Undisturbed
    /\ rdB # FreshReader
    /\ rdB' = FreshReader
    /\ UNCHANGED <<bgw, written, closes, atClose, rdA, late, dmg>>
    /\ UNCHANGED bgOthers

\* write(d) after close, d being n bytes
BgWriteClosed(n) ==
    /\ ~ bgw.open
    /\ closes \in 1..MaxCloses
    /\ late < MaxLate
    /\ Unread
    /\ bgw' = WriteOp(bgw, LateChunk(n))
    /\ late' = late + 1
    /\ UNCHANGED <<written, closes, atClose, rdA, rdB, dmg>>
    /\ UNCHANGED bgOthers

\* a fresh reader reads all of a copy of the file in which the CRC32 or the ISIZE of
\* block k is not the one that was written
BgReadDamaged(k, field) ==
    /\ Readable
    /\ Unread
    /\ dmg = NoDamage
    /\ k \in 1..Len(bgw.file)
    /\ LET res == ReadOp(Damage(bgw.file, k, field), FreshReader, -1)
       IN  dmg' = [k |-> k, field |-> field, data |-> res.data, err |-> res.err]
    /\ UNCHANGED <<bgw, written, closes, atClose, rdA, rdB, late>>
    /\ UNCHANGED bgOthers

NextBGZF ==
    \/ \E n \in 0..MaxWrite : BgWrite(n)
    \/ \E n \in 0..MaxWrite : BgWriteClosed(n)
    \/ \E k \in 1..Len(bgw.file), field \in {"crc", "isize"} : BgReadDamaged(k, field)
    \/ BgFlush
    \/ BgClose
    \/ \E n \in ReadSizes : BgRead(n)
    \/ BgSeek
    \/ \E n \in ReadSizes : BgSeqRead(n)
    \/ BgSeqReopen

(***************************************************************************)
(* The binning index: Tabix in write mode (init, add, optimize, save), in  *)
(* read mode (load), and query.                                            *)
(*                                                                         *)
(* A virtual offset is the pair <<block offset, offset within the block>>  *)
(* of the 64-bit value block << 16 | within: v >> 16 is v[1], and the      *)
(* order of the integers is the lexicographic order of the pairs.          *)
(***************************************************************************)
VZero == <<0, 0>>
VLt(a, b) == a[1] < b[1] \/ (a[1] = b[1] /\ a[2] < b[2])
VLe(a, b) == a = b \/ VLt(a, b)
VMax(a, b) == IF VLt(a, b) THEN b ELSE a
\* v >> 16
VBlk(v) == v[1]

\* x >> n for an x of fewer than 32 bits, and 1 << n
Shr(x, n) == IF n >= 31 THEN (IF x < 0 THEN -1 ELSE 0) ELSE x \div (2 ^ n)
Pow2(n) == 2 ^ n

\* tuples (begin, end) as sorted() orders them
RangeLt(r1, r2) == VLt(r1[1], r2[1]) \/ (r1[1] = r2[1] /\ VLt(r1[2], r2[2]))

\* sorted(ranges), ranges given as a list; a range listed twice merges into itself,
\* so the sort keeps one of it
RECURSIVE SortRangeSet(_)
SortRangeSet(S) ==
    IF S = {} THEN <<>>
    ELSE LET m == CHOOSE r \in S : \A r2 \in S : r = r2 \/ RangeLt(r, r2)
         IN  <<m>> \o SortRangeSet(S \ {m})

SortedRanges(ranges) == SortRangeSet({ranges[k] : k \in 1..Len(ranges)})

\* a merge that also yields when the next range only touches the block of the last
TbMergeSplitsOnTouch(p, r) == VBlk(r[1]) >= VBlk(p[2])

\* elif r[0] >> shift > p[1] >> shift, with shift = 16
TbMergeSplits(p, r) == VBlk(r[1]) > VBlk(p[2])

\* the loop of Tabix.merge over the sorted ranges from the k-th on, p the pending one
RECURSIVE TbMergeLoop(_, _, _, _)
TbMergeLoop(sorted, k, p, yielded) ==
    IF k > Len(sorted) THEN Append(yielded, p)
    ELSE LET r == sorted[k]
         IN  IF TbMergeSplits(p, r)
             THEN TbMergeLoop(sorted, k + 1, r, Append(yielded, p))
             ELSE TbMergeLoop(sorted, k + 1, <<p[1], VMax(p[2], r[2])>>, yielded)

\* Tabix.merge(ranges, 16): the list of the ranges it yields
TbMerge(ranges) ==
    LET sorted == SortedRanges(ranges)
    IN  IF sorted = <<>> THEN <<>> ELSE TbMergeLoop(sorted, 2, sorted[1], <<>>)

----------------------------------------------------------------------------
\* bo = ((1 << self.max_shift - shift) - 1) // 7
BinOffset(maxShift, shift) == (Pow2(maxShift - shift) - 1) \div 7

\* the for loop of add that finds the record's bin; 0 when no level holds the span
RECURSIVE RegBin(_, _, _, _)
RegBin(t, s, e, shift) ==
    IF shift > t.max_shift THEN 0
    ELSE IF Shr(s, shift) = Shr(e - 1, shift)
         THEN BinOffset(t.max_shift, shift) + Shr(s, shift)
         ELSE RegBin(t, s, e, shift + 3)

\* The linear array intvs is kept as the list of its runs <<n, v>>: n consecutive
\* entries of value v.  len(intvs) and intvs[i] (i from 0):
RECURSIVE IntvLenFrom(_, _)
IntvLenFrom(runs, k) ==
    IF k > Len(runs) THEN 0 ELSE runs[k][1] + IntvLenFrom(runs, k + 1)

IntvLen(runs) == IntvLenFrom(runs, 1)

RECURSIVE IntvAtFrom(_, _, _)
IntvAtFrom(runs, k, i) ==
    IF i < runs[k][1] THEN runs[k][2] ELSE IntvAtFrom(runs, k + 1, i - runs[k][1])

IntvAt(runs, i) == IntvAtFrom(runs, 1, i)

\* a bin as bins.setdefault(bin, []) followed by b.extend((0, [])) leaves it
EmptyBin == [loff |-> VZero, chunks |-> <<>>]
BinOf(bins, bin) == IF bin \in DOMAIN bins THEN bins[bin] ELSE EmptyBin
DelBin(bins, bin) == [b \in DOMAIN bins \ {bin} |-> bins[b]]
PutBin(bins, bin, val) == (bin :> val) @@ bins

\* the keys of a dict, sorted
RECURSIVE SortedKeys(_)
SortedKeys(S) ==
    IF S = {} THEN <<>> ELSE <<SetMin(S)>> \o SortedKeys(S \ {SetMin(S)})

\* the body of optimize's inner loop for one bin of the level of shift
OptBin(t, bins, intvs, shift, bin) ==
    LET bo == BinOffset(t.max_shift, shift)
    IN  IF bin \notin DOMAIN bins THEN bins
        ELSE LET chunks == bins[bin].chunks
             IN  IF Len(chunks) = 0 THEN DelBin(bins, bin)
                 ELSE LET bs == VBlk(chunks[1][1])
                          be == VBlk(chunks[Len(chunks)][2])
                      IN  IF be - bs < 65536 /\ bo > 0
                          THEN LET par == Shr(bin - 1, 3)
                                   bins1 == DelBin(bins, bin)
                                   b == BinOf(bins1, par)
                               IN  PutBin(bins1, par,
                                          [b EXCEPT !.chunks = TbMerge(chunks \o b.chunks)])
                          ELSE IF intvs # <<>>
                               THEN LET intv == Min((bin - bo) * Pow2(shift - t.min_shift),
                                                    IntvLen(intvs) - 1)
                                    IN  PutBin(bins, bin,
                                               [bins[bin] EXCEPT !.loff = IntvAt(intvs, intv)])
                               ELSE bins

RECURSIVE OptBins(_, _, _, _, _, _)
OptBins(t, bins, intvs, shift, keys, k) ==
    IF k > Len(keys) THEN bins
    ELSE OptBins(t, OptBin(t, bins, intvs, shift, keys[k]), intvs, shift, keys, k + 1)

\* the outer loop of optimize, from the level of shift upwards; the inner loop runs
\* over the sorted keys from bo up to bo << 3
RECURSIVE OptLevels(_, _, _, _)
OptLevels(t, bins, intvs, shift) ==
    IF shift > t.max_shift THEN bins
    ELSE LET bo == BinOffset(t.max_shift, shift)
             keys == SortedKeys({b \in DOMAIN bins : b >= bo /\ b <= bo * 8})
         IN  OptLevels(t, OptBins(t, bins, intvs, shift, keys, 1), intvs, shift + 3)

\* Tabix.optimize on the entry of contig c
Optimize(t, c) ==
    [t EXCEPT !.ix[c].bins = OptLevels(t, t.ix[c].bins, t.ix[c].intvs, t.min_shift)]

----------------------------------------------------------------------------
\* the while loop of add that finds the shift of the contig length s < 2^31
RECURSIVE PromoteShift(_, _)
PromoteShift(s, shift) ==
    IF shift < 31 /\ s > Pow2(shift) THEN PromoteShift(s, shift + 1) ELSE shift

\* a promotion that rounds the depth down
PromoteDepthDown(shift, minShift) == (shift - minShift) \div 3

\* self.depth = (shift - self.min_shift + 2) // 3
PromoteDepth(shift, minShift) == (shift - minShift + 2) \div 3

\* the sentinel's part of add: if c is None and s > 0
Promote(t, s) ==
    LET shift == PromoteShift(s, t.min_shift)
    IN  IF shift >= 32 THEN [t EXCEPT !.err = "too long"]
        ELSE IF shift > t.min_shift + t.depth * 3
             THEN LET d == PromoteDepth(shift, t.min_shift)
                  IN  [t EXCEPT !.magic = "CSI", !.depth = d,
                                !.max_shift = t.min_shift + d * 3]
             ELSE t

\* a chunk per record, never joined to the one before
AddChunkNoJoin(chunks, end, off) == Append(chunks, <<end, off>>)

\* a chunk that begins at the start of the file
AddChunkFromStart(chunks, end, off) == Append(chunks, <<VZero, off>>)

\* the chunk of the record: joined to the bin's last when that ends at self.end
AddChunk(chunks, end, off) ==
    IF chunks # <<>> /\ chunks[Len(chunks)][2] = end
    THEN [chunks EXCEPT ![Len(chunks)] = <<chunks[Len(chunks)][1], off>>]
    ELSE Append(chunks, <<end, off>>)

\* intvs += [self.end] * (be+1 - len(intvs))
FillIntvs(intvs, be, end) ==
    IF be >= IntvLen(intvs)
    THEN Append(intvs, <<be + 1 - IntvLen(intvs), end>>)
    ELSE intvs

\* an add that moves self.pos before it asserts
AddRecordPosFirst(t, c, s, e, off) ==
    [t EXCEPT !.pos = s, !.err = IF t.ci = c /\ s >= t.pos THEN "" ELSE "assert"]

\* the part of add under "if self.ci": the assertion, the tiles, the bin, the chunk
AddRecord(t, c, s, e, off) ==
    IF ~ (t.ci = c /\ s >= t.pos) THEN [t EXCEPT !.err = "assert"]
    ELSE LET ci == t.ix[c]
             intvs == FillIntvs(ci.intvs, Shr(e - 1, t.min_shift), t.end)
             bin == RegBin(t, s, e, t.min_shift)
             b == BinOf(ci.bins, bin)
             b1 == [b EXCEPT !.chunks = AddChunk(b.chunks, t.end, off)]
         IN  [t EXCEPT !.ix[c] = [bins |-> PutBin(ci.bins, bin, b1), intvs |-> intvs],
                       !.pos = s]

EmptyCI == [bins |-> <<>>, intvs |-> <<>>]

\* Tabix.add(c, s, e, off); c is NoContig for the sentinel's None
TbAddOp(t, c, s, e, off) ==
    LET t1 == IF c = NoContig /\ s > 0 THEN Promote(t, s) ELSE t
        t2 == IF t1.ci # NoContig /\ t1.ci # c
              THEN [Optimize(t1, t1.ci) EXCEPT !.ci = NoContig]
              ELSE t1
        t3 == IF t2.ci = NoContig /\ c # NoContig
              THEN [t2 EXCEPT !.ci = c,
                              !.ix = (c :> EmptyCI) @@ t2.ix,
                              !.names = IF c \in DOMAIN t2.ix THEN @ ELSE Append(@, c),
                              !.pos = 0]
              ELSE t2
        t4 == IF t3.ci # NoContig THEN AddRecord(t3, c, s, e, off) ELSE t3
    IN  IF t1.err # "" THEN t1
        ELSE IF t4.err # "" THEN t4
        ELSE [t4 EXCEPT !.end = off]

\* Tabix.init under VCF_INDEX_TYPE = cfg
TbInitOp(cfg) ==
    [magic |-> cfg.magic, min_shift |-> cfg.min_shift, depth |-> cfg.depth,
     max_shift |-> cfg.min_shift + cfg.depth * 3, header |-> TRUE,
     names |-> <<>>, ix |-> <<>>, ci |-> NoContig, pos |-> 0, end |-> VZero, err |-> ""]

----------------------------------------------------------------------------
\* the chunks of the bins bs..be of a contig's entry
ChunksOfBins(bins, bs, be) ==
    UNION {{bins[b].chunks[k] : k \in 1..Len(bins[b].chunks)} :
           b \in {x \in DOMAIN bins : bs <= x /\ x <= be}}

\* the first bin found from bs down to bo: the loffset it gives, if there is one
LeftLoff(bins, bs, bo, minoff) ==
    LET B == {x \in DOMAIN bins : bo <= x /\ x <= bs}
    IN  IF B = {} THEN minoff ELSE VMax(minoff, bins[SetMax(B)].loff)

\* the for loop of query from the level of shift downwards: <<minoff, ranges>>
RECURSIVE QueryLevels(_, _, _, _, _, _, _)
QueryLevels(t, ci, s, e, shift, minoff, ranges) ==
    IF shift < t.min_shift THEN <<minoff, ranges>>
    ELSE LET bo == BinOffset(t.max_shift, shift)
             bs == bo + Shr(s, shift)
             be == bo + Shr(e - 1, shift)
             minoff1 == IF ci.intvs = <<>> THEN LeftLoff(ci.bins, bs, bo, minoff)
                        ELSE minoff
         IN  QueryLevels(t, ci, s, e, shift - 3, minoff1,
                         ranges \cup ChunksOfBins(ci.bins, bs, be))

\* ranges = [(max(s,minoff), e) for s,e in ranges if e > minoff]
ClipRanges(ranges, minoff) ==
    IF VLt(VZero, minoff)
    THEN {<<VMax(r[1], minoff), r[2]>> : r \in {x \in ranges : VLt(minoff, x[2])}}
    ELSE ranges

\* Tabix.query(c, s, e): the list of the chunks it yields
TbQuery(t, c, s0, e) ==
    IF c \notin DOMAIN t.ix THEN <<>>
    ELSE LET ci == t.ix[c]
             s == Max(s0, 0)
             i == Shr(s, t.min_shift)
             minoff0 == IF ci.intvs # <<>>
                        THEN IntvAt(ci.intvs, Min(i, IntvLen(ci.intvs) - 1))
                        ELSE VZero
             lv == QueryLevels(t, ci, s, e, t.max_shift, minoff0, {})
         IN  TbMerge(SortRangeSet(ClipRanges(lv[2], lv[1])))

----------------------------------------------------------------------------
\* Tabix.save after its sentinel add: what the file holds. A TBI file has no
\* loffsets, a CSI file no linear offsets; the bins are written in sorted order.
TbFile(t) ==
    [magic |-> t.magic, min_shift |-> t.min_shift, depth |-> t.depth,
     names |-> t.names,
     refs |-> [i \in 1..Len(t.names) |->
                 LET ci == t.ix[t.names[i]]
                     keys == SortedKeys(DOMAIN ci.bins)
                 IN  [bins |-> [k \in 1..Len(keys) |->
                                  [bin |-> keys[k],
                                   loff |-> IF t.magic = "TBI" THEN VZero
                                            ELSE ci.bins[keys[k]].loff,
                                   chunks |-> ci.bins[keys[k]].chunks]],
                      intvs |-> IF t.magic = "TBI" THEN ci.intvs ELSE <<>>]]]

\* Tabix.save
TbSaveOp(t) ==
    IF ~ t.header THEN t
    ELSE [TbAddOp(t, NoContig, 0, 0, t.end) EXCEPT !.header = FALSE]

\* Tabix.load of a file: TBI fixes min_shift 14 and depth 5 and reads every loffset
\* as 0; an empty TBI linear array is read as [0]
TbLoadOp(f) ==
    LET ms == IF f.magic = "TBI" THEN 14 ELSE f.min_shift
        dp == IF f.magic = "TBI" THEN 5 ELSE f.depth
        Ref(i) ==
            [bins |-> [b \in {f.refs[i].bins[k].bin : k \in 1..Len(f.refs[i].bins)} |->
                         LET k == CHOOSE k \in 1..Len(f.refs[i].bins) :
                                      f.refs[i].bins[k].bin = b
                         IN  [loff |-> IF f.magic = "TBI" THEN VZero
                                       ELSE f.refs[i].bins[k].loff,
                              chunks |-> f.refs[i].bins[k].chunks]],
             intvs |-> IF f.magic = "TBI"
                       THEN IF f.refs[i].intvs = <<>> THEN << <<1, VZero>> >>
                            ELSE f.refs[i].intvs
                       ELSE <<>>]
    IN  [magic |-> f.magic, min_shift |-> ms, depth |-> dp, max_shift |-> ms + dp * 3,
         header |-> TRUE, names |-> f.names,
         ix |-> [c \in {f.names[i] : i \in 1..Len(f.names)} |->
                   Ref(CHOOSE i \in 1..Len(f.names) : f.names[i] = c)],
         ci |-> NoContig, pos |-> 0, end |-> VZero, err |-> ""]

----------------------------------------------------------------------------
(* A VCF writer with a binning index: VCF.open(path + ".gz", "w"), emit_header,  *)
(* emit, close; and a reader's Tabix(path, "r").                                 *)

\* VCF_INDEX_TYPE "1" and "2"
TbConfigs ==
    {[magic |-> "TBI", min_shift |-> 14, depth |-> 5],
     [magic |-> "CSI", min_shift |-> 14, depth |-> 5]}

\* the largest contig length of the header: none declared, 2^29, 2^29 + 1, 2^30
HeaderLens == {0, 536870912, 536870913, 1073741824}

\* the spans [pos, end) of the records
Spans ==
    {<<0, 1>>, <<16383, 16385>>, <<536887295, 536887297>>}

\* fp.tell() after the header
HeaderEnd == <<0, 100>>

\* no add refused yet
NoAdd == [c |-> NoContig, s |-> 0, e |-> 0]

\* the bytes of a line, and the distance of a block far behind (not under 65536)
LineLen == 50
FarBlock == 70000

\* fp.tell() after one more line: in the same block, or a block far behind
NextOff(end, far) == IF far THEN <<end[1] + FarBlock, 0>> ELSE <<end[1], end[2] + LineLen>>

TbIdle ==
    /\ tbCfg = [magic |-> "TBI", min_shift |-> 14, depth |-> 5]
    /\ tbLen = 0
    /\ tb = TbInitOp(tbCfg)
    /\ tbPhase = "idle"
    /\ tbRecs = <<>>
    /\ tbRejected = NoAdd
    /\ tbFile = TbFile(tb)
    /\ tbRd = tb

TbInit ==
    /\ tbCfg \in TbConfigs
    /\ tbLen \in HeaderLens
    /\ tb = TbInitOp(tbCfg)
    /\ tbPhase = "new"
    /\ tbRecs = <<>>
    /\ tbRejected = NoAdd
    /\ tbFile = TbFile(tb)
    /\ tbRd = tb

\* VCF.emit_header: the sentinel add(None, maxlen, 0, fp.tell())
TbEmitHeader ==
    /\ tbPhase = "new"
    /\ tb' = TbAddOp(tb, NoContig, tbLen, 0, HeaderEnd)
    /\ tbPhase' = "open"
    /\ UNCHANGED <<tbRecs, tbFile, tbRd, tbCfg, tbLen, tbRejected>>
    /\ UNCHANGED <<trVars, ixOthers>>

\* the next record comes in non-decreasing (contig, pos) order
InOrder(recs, c, s) ==
    IF recs = <<>> THEN TRUE
    ELSE LET last == recs[Len(recs)]
         IN  IF c = last.c THEN s >= last.s ELSE ContigIdx(c) > ContigIdx(last.c)

\* every record of the history came in order
Ordered(recs) ==
    \A i \in 1..(Len(recs) - 1) : InOrder(SubSeq(recs, 1, i), recs[i + 1].c, recs[i + 1].s)

\* VCF.emit(v): the line is written, then index.add(v.chrom, v.pos, v.end, fp.tell()),
\* whose assertion error ends the writer.  The records come in any order until one
\* comes out of order.
TbEmit(c, span, far) ==
    /\ tbPhase = "open"
    /\ Len(tbRecs) < MaxAdds
    /\ Ordered(tbRecs)
    /\ LET off == NextOff(tb.end, far)
           t1 == TbAddOp(tb, c, span[1], span[2], off)
       IN  /\ tb' = t1
           /\ IF t1.err = ""
              THEN /\ tbRecs' = Append(tbRecs, [c |-> c, s |-> span[1], e |-> span[2],
                                                ob |-> tb.end, oa |-> off])
                   /\ UNCHANGED <<tbPhase, tbRejected>>
              ELSE /\ tbRejected' = [c |-> c, s |-> span[1], e |-> span[2]]
                   /\ tbPhase' = "failed"
                   /\ UNCHANGED tbRecs
    /\ UNCHANGED <<tbFile, tbRd, tbCfg, tbLen>>
    /\ UNCHANGED <<trVars, ixOthers>>

\* VCF.close: index.save()
TbClose ==
    /\ tbPhase = "open"
    /\ tb' = TbSaveOp(tb)
    /\ tbFile' = TbFile(tb')
    /\ tbPhase' = "saved"
    /\ UNCHANGED <<tbRecs, tbRd, tbCfg, tbLen, tbRejected>>
    /\ UNCHANGED <<trVars, ixOthers>>

\* Tabix(path, "r"): load
TbLoad ==
    /\ tbPhase = "saved"
    /\ tbRd' = TbLoadOp(tbFile)
    /\ tbPhase' = "loaded"
    /\ UNCHANGED <<tb, tbRecs, tbFile, tbCfg, tbLen, tbRejected>>
    /\ UNCHANGED <<trVars, ixOthers>>

(***************************************************************************)
(* The Tribble index (.idx) of an uncompressed VCF: LinearIndex,           *)
(* IntervalTree, IntervalTreeIndex and TribbleIndex.  Offsets are plain    *)
(* file offsets.                                                           *)
(***************************************************************************)
ByBegin(r1, r2) == r1[1] < r2[1] \/ (r1[1] = r2[1] /\ r1[2] < r2[2])

RECURSIVE SortPairs(_)
SortPairs(S) ==
    IF S = {} THEN <<>>
    ELSE LET m == CHOOSE r \in S : \A r2 \in S : r = r2 \/ ByBegin(r, r2)
         IN  <<m>> \o SortPairs(S \ {m})

\* elif r[0] >> shift > p[1] >> shift, with shift = 0
TrMergeSplits(p, r) == r[1] > p[2]

RECURSIVE TrMergeLoop(_, _, _, _)
TrMergeLoop(sorted, k, p, yielded) ==
    IF k > Len(sorted) THEN Append(yielded, p)
    ELSE LET r == sorted[k]
         IN  IF TrMergeSplits(p, r)
             THEN TrMergeLoop(sorted, k + 1, r, Append(yielded, p))
             ELSE TrMergeLoop(sorted, k + 1, <<p[1], Max(p[2], r[2])>>, yielded)

\* TribbleIndex.merge(ranges, 0) of a set of ranges: the list of the ranges it yields
TrMerge(ranges) ==
    LET sorted == SortPairs(ranges)
    IN  IF sorted = <<>> THEN <<>> ELSE TrMergeLoop(sorted, 2, sorted[1], <<>>)

----------------------------------------------------------------------------
\* LinearIndex(chrom, off, width, density)
LinearNew(chrom, off, width, density) ==
    [chrom |-> chrom, end |-> off, width |-> width, longest |-> 0, count |-> 0,
     blocks |-> <<>>, density |-> density]

\* LinearIndex.add
LinearAdd(ci, s, e, off) ==
    LET bin == s \div ci.width
    IN  [ci EXCEPT !.blocks = IF bin >= Len(@)
                              THEN @ \o [k \in 1..(bin + 1 - Len(@)) |-> ci.end]
                              ELSE @,
                   !.longest = Max(@, e - s),
                   !.count = @ + 1,
                   !.end = off]

\* LinearIndex.optimize
LinearOptimize(ci) ==
    LET n == Len(ci.blocks)
        maxsize == SetMax({ci.blocks[i + 1] - ci.blocks[i] : i \in 1..(n - 1)})
        fullsize == ci.blocks[n] - ci.blocks[1]
        scale == (ci.density * fullsize) \div (ci.count * maxsize)
    IN  IF scale > 1
        THEN LET bins == (n - 1 + scale - 1) \div scale
             IN  [ci EXCEPT !.blocks = [i \in 1..bins |-> ci.blocks[(i - 1) * scale + 1]],
                            !.width = @ * scale]
        ELSE ci

\* LinearIndex.done
LinearDone(ci) == LinearOptimize([ci EXCEPT !.blocks = Append(@, ci.end)])

\* a query that starts at the bin of s itself
LinearQueryNarrow(ci, s0, e) ==
    LET i == s0 \div ci.width
    IN  IF i >= Len(ci.blocks) THEN <<>>
        ELSE << <<ci.blocks[i + 1], ci.blocks[Len(ci.blocks)]>> >>

\* LinearIndex.query
LinearQuery(ci, s0, e) ==
    LET s == Max(s0, ci.longest) - ci.longest
        i == s \div ci.width
    IN  IF i >= Len(ci.blocks) THEN <<>>
        ELSE << <<ci.blocks[i + 1], ci.blocks[Len(ci.blocks)]>> >>

----------------------------------------------------------------------------
\* the d of the tree's last interval (2**32-1, 2**32-1, None); its two coordinates
\* are above every coordinate of a record, as the largest integer is here
NoData == <<-1, -1>>
TreeLast == <<2147483647, 2147483647, NoData>>

\* the order of the tuples (s, e, d)
IntvlLt(a, b) ==
    \/ a[1] < b[1]
    \/ a[1] = b[1] /\ a[2] < b[2]
    \/ a[1] = b[1] /\ a[2] = b[2] /\ ByBegin(a[3], b[3])

\* self.intvls.sort(); no two intervals of a tree are equal
RECURSIVE SortIntvls(_)
SortIntvls(S) ==
    IF S = {} THEN <<>>
    ELSE LET m == CHOOSE a \in S : \A b \in S : a = b \/ IntvlLt(a, b)
         IN  <<m>> \o SortIntvls(S \ {m})

\* h[0] of the heap of the pairs (end, index)
TreeHeapMin(h) == CHOOSE m \in h : \A x \in h : m = x \/ ByBegin(m, x)

\* the while loop of update for an interval that starts at vs
RECURSIVE TreePops(_, _)
TreePops(vs, st) ==
    IF st.h # {} /\ TreeHeapMin(st.h)[1] <= vs
    THEN LET m == TreeHeapMin(st.h)
         IN  TreePops(vs, [cur |-> m[1], h |-> st.h \ {m},
                           splits |-> st.splits \o <<st.cur, m[1]>>,
                           values |-> Append(st.values, {x[2] : x \in st.h})])
    ELSE st

\* the for loop of update from the k-th interval on; an index is a place in 1..n
RECURSIVE TreeScan(_, _, _)
TreeScan(sorted, k, st) ==
    IF k > Len(sorted) THEN st
    ELSE LET v == sorted[k]
             st1 == TreePops(v[1], st)
             st2 == IF st1.h # {} /\ st1.cur < v[1]
                    THEN [st1 EXCEPT !.splits = @ \o <<st1.cur, v[1]>>,
                                     !.values = Append(@, {x[2] : x \in st1.h})]
                    ELSE st1
         IN  TreeScan(sorted, k + 1,
                      [st2 EXCEPT !.cur = v[1], !.h = @ \cup {<<v[2], k>>}])

\* IntervalTree(): intvls, splits, values
TreeNew == [intvls |-> <<TreeLast>>, splits |-> <<>>, values |-> <<>>]

\* IntervalTree.insert
TreeInsert(tree, s, e, d) == [tree EXCEPT !.intvls = Append(@, <<s, e, d>>)]

\* IntervalTree.update
TreeUpdate(tree) ==
    LET sorted == SortIntvls({tree.intvls[k] : k \in 1..Len(tree.intvls)})
        st == TreeScan(sorted, 1, [cur |-> 0, h |-> {}, splits |-> <<>>, values |-> <<>>])
    IN  [intvls |-> sorted, splits |-> st.splits, values |-> st.values]

\* the while loop of IntervalTree.query from segment i (from 0) on
RECURSIVE TreeQueryLoop(_, _, _, _)
TreeQueryLoop(tree, i, e, r) ==
    IF i >= Len(tree.values) THEN r
    ELSE IF e <= tree.splits[i * 2 + 1] THEN r
    ELSE TreeQueryLoop(tree, i + 1, e, r \cup tree.values[i + 1])

\* a query whose bisection counts only the entries of splits below s
TreeQueryBisectLeft(tree, s, e) ==
    LET i == Cardinality({k \in 1..Len(tree.splits) : tree.splits[k] < s}) \div 2
    IN  {tree.intvls[j][3] : j \in TreeQueryLoop(tree, i, e, {})}

\* IntervalTree.query: the set of the d it yields; bisect.bisect(splits, s) counts
\* the entries of the sorted splits that are not above s
TreeQuery(tree, s, e) ==
    LET i == Cardinality({k \in 1..Len(tree.splits) : tree.splits[k] <= s}) \div 2
    IN  {tree.intvls[j][3] : j \in TreeQueryLoop(tree, i, e, {})}

----------------------------------------------------------------------------
\* IntervalTreeIndex(chrom, off, density); curr is [sloc, eloc, soff, eoff, count]
ITreeNew(chrom, off, density) ==
    [chrom |-> chrom, density |-> density, tree |-> TreeNew,
     curr |-> <<0, 0, off, off, 0>>]

\* IntervalTreeIndex.add
ITreeAdd(ci, s, e, off) ==
    LET full == ci.curr[5] = ci.density
        c0 == ci.curr
        c1 == IF full THEN <<s, c0[2], c0[4], c0[4], 0>> ELSE c0
    IN  [ci EXCEPT !.tree = IF full THEN TreeInsert(@, c0[1], c0[2], <<c0[3], c0[4]>>)
                            ELSE @,
                   !.curr = <<c1[1], e, c1[3], off, c1[5] + 1>>]

\* IntervalTreeIndex.done
ITreeDone(ci) ==
    LET c0 == ci.curr
        tree == IF c0[5] > 0 THEN TreeInsert(ci.tree, c0[1], c0[2], <<c0[3], c0[4]>>)
                ELSE ci.tree
    IN  [ci EXCEPT !.tree = TreeUpdate(tree)]

\* IntervalTreeIndex.query
ITreeQuery(ci, s, e) == TrMerge(TreeQuery(ci.tree, s, e))

----------------------------------------------------------------------------
INDEX_TYPE_LINEAR == 1
INDEX_TYPE_INTERVAL_TREE == 2
DEFAULT_INDEX_BIN_WIDTH == 8000

\* TribbleIndex.init under VCF_INDEX_TYPE = type
TrInitOp(type) ==
    [type |-> type, header |-> TRUE, names |-> <<>>, ix |-> <<>>, ci |-> NoContig,
     pos |-> 0, end |-> 0, err |-> ""]

\* ci.done() of the contig being built
TrDone(t) ==
    [t EXCEPT !.ix[t.ci] = IF t.type = INDEX_TYPE_LINEAR THEN LinearDone(@)
                           ELSE ITreeDone(@),
              !.ci = NoContig]

\* the new contig index of add
TrNewCI(t, c) ==
    IF t.type = INDEX_TYPE_LINEAR
    THEN LinearNew(c, t.end, DEFAULT_INDEX_BIN_WIDTH, BinDensity)
    ELSE ITreeNew(c, t.end, IntervalDensity)

\* TribbleIndex.add(c, s, e, off); c is NoContig for None
TrAddOp(t, c, s, e, off) ==
    LET t1 == IF t.ci # NoContig /\ t.ci # c THEN TrDone(t) ELSE t
        t2 == IF t1.ci = NoContig /\ c # NoContig
              THEN [t1 EXCEPT !.ci = c,
                              !.ix = (c :> TrNewCI(t1, c)) @@ t1.ix,
                              !.names = IF c \in DOMAIN t1.ix THEN @ ELSE Append(@, c),
                              !.pos = 0]
              ELSE t1
    IN  IF t2.ci = NoContig THEN [t2 EXCEPT !.end = off]
        ELSE IF ~ (t2.ci = c /\ s >= t2.pos) THEN [t2 EXCEPT !.err = "assert"]
        ELSE [t2 EXCEPT !.ix[c] = IF t.type = INDEX_TYPE_LINEAR
                                  THEN LinearAdd(@, s, e, off)
                                  ELSE ITreeAdd(@, s, e, off),
                        !.pos = s,
                        !.end = off]

\* LinearIndex.encode and IntervalTreeIndex.encode
LinearEncode(ci) ==
    [chrom |-> ci.chrom, width |-> ci.width, bins |-> Len(ci.blocks) - 1,
     longest |-> ci.longest, count |-> ci.count, blocks |-> ci.blocks]

ITreeEncode(ci) ==
    LET real == SelectSeq(ci.tree.intvls, LAMBDA v : v[3] # NoData)
    IN  [chrom |-> ci.chrom, nitvs |-> Len(ci.tree.intvls) - 1,
         itvs |-> [k \in 1..Len(real) |->
                     <<real[k][1] + 1, real[k][2], real[k][3][1],
                       real[k][3][2] - real[k][3][1]>>]]

\* LinearIndex.decode and IntervalTreeIndex.decode
LinearDecode(d) ==
    [chrom |-> d.chrom, end |-> 0, width |-> d.width, longest |-> d.longest,
     count |-> d.count, blocks |-> SubSeq(d.blocks, 1, d.bins + 1), density |-> 0]

RECURSIVE ITreeDecodeLoop(_, _, _)
ITreeDecodeLoop(d, k, tree) ==
    IF k > d.nitvs THEN tree
    ELSE LET v == d.itvs[k]
         IN  ITreeDecodeLoop(d, k + 1,
                             TreeInsert(tree, v[1] - 1, v[2], <<v[3], v[3] + v[4]>>))

ITreeDecode(d) ==
    [chrom |-> d.chrom, density |-> 0, tree |-> TreeUpdate(ITreeDecodeLoop(d, 1, TreeNew)),
     curr |-> <<0, 0, 0, 0, 0>>]

\* what TribbleIndex.save writes after its add(None, 0, 0, self.end)
TrFile(t) ==
    [type |-> t.type, filesize |-> t.end,
     refs |-> [i \in 1..Len(t.names) |->
                 IF t.type = INDEX_TYPE_LINEAR THEN LinearEncode(t.ix[t.names[i]])
                 ELSE ITreeEncode(t.ix[t.names[i]])]]

\* TribbleIndex.save
TrSaveOp(t) ==
    IF ~ t.header THEN t
    ELSE [TrAddOp(t, NoContig, 0, 0, t.end) EXCEPT !.header = FALSE]

\* TribbleIndex.load
TrLoadOp(f) ==
    LET Dec(i) == IF f.type = INDEX_TYPE_LINEAR THEN LinearDecode(f.refs[i])
                  ELSE ITreeDecode(f.refs[i])
        names == [i \in 1..Len(f.refs) |-> f.refs[i].chrom]
    IN  [type |-> f.type, header |-> TRUE, names |-> names,
         ix |-> [c \in {names[i] : i \in 1..Len(names)} |->
                   Dec(SetMax({i \in 1..Len(names) : names[i] = c}))],
         ci |-> NoContig, pos |-> 0, end |-> 0, err |-> ""]

\* TribbleIndex.query
TrQuery(t, c, s, e) ==
    IF c \notin DOMAIN t.ix THEN <<>>
    ELSE IF t.type = INDEX_TYPE_LINEAR THEN LinearQuery(t.ix[c], s, e)
    ELSE ITreeQuery(t.ix[c], s, e)

----------------------------------------------------------------------------
(* A writer of an uncompressed VCF with a TribbleIndex(path + ".idx", "w"), and  *)
(* a reader's TribbleIndex(path + ".idx", "r").                                  *)

\* the spans [pos, end) of the records
TrSpans ==
    {<<0, 1>>, <<0, 40000>>, <<7999, 8001>>, <<8000, 8010>>, <<30000, 30001>>}

\* fp.tell() after the header
TrHeaderEnd == 100

TrIdle ==
    /\ tr = TrInitOp(INDEX_TYPE_LINEAR)
    /\ trPhase = "idle"
    /\ trRecs = <<>>
    /\ trRejected = NoAdd
    /\ trFile = TrFile(tr)
    /\ trRd = tr

TrInit ==
    /\ \E type \in {INDEX_TYPE_LINEAR, INDEX_TYPE_INTERVAL_TREE} : tr = TrInitOp(type)
    /\ trPhase = "new"
    /\ trRecs = <<>>
    /\ trRejected = NoAdd
    /\ trFile = TrFile(tr)
    /\ trRd = tr

\* the header is written, then index.add(None, maxlen, 0, fp.tell())
TrEmitHeader ==
    /\ trPhase = "new"
    /\ tr' = TrAddOp(tr, NoContig, 0, 0, TrHeaderEnd)
    /\ trPhase' = "open"
    /\ UNCHANGED <<trRecs, trFile, trRd, trRejected>>
    /\ UNCHANGED <<tbVars, ixOthers>>

\* a line is written, then index.add(chrom, pos, end, fp.tell()), whose assertion
\* error ends the writer
TrEmit(c, span) ==
    /\ trPhase = "open"
    /\ Len(trRecs) < MaxTrAdds
    /\ Ordered(trRecs)
    /\ LET off == tr.end + LineLen
           t1 == TrAddOp(tr, c, span[1], span[2], off)
       IN  /\ tr' = t1
           /\ IF t1.err = ""
              THEN /\ trRecs' = Append(trRecs, [c |-> c, s |-> span[1], e |-> span[2],
                                                ob |-> tr.end, oa |-> off])
                   /\ UNCHANGED <<trPhase, trRejected>>
              ELSE /\ trRejected' = [c |-> c, s |-> span[1], e |-> span[2]]
                   /\ trPhase' = "failed"
                   /\ UNCHANGED trRecs
    /\ UNCHANGED <<trFile, trRd>>
    /\ UNCHANGED <<tbVars, ixOthers>>

\* index.save()
TrClose ==
    /\ trPhase = "open"
    /\ tr' = TrSaveOp(tr)
    /\ trFile' = TrFile(tr')
    /\ trPhase' = "saved"
    /\ UNCHANGED <<trRecs, trRd, trRejected>>
    /\ UNCHANGED <<tbVars, ixOthers>>

\* TribbleIndex(path, "r"): load
TrLoad ==
    /\ trPhase = "saved"
    /\ trRd' = TrLoadOp(trFile)
    /\ trPhase' = "loaded"
    /\ UNCHANGED <<tr, trRecs, trFile, trRejected>>
    /\ UNCHANGED <<tbVars, ixOthers>>

NextIndex ==
    \/ TbEmitHeader
    \/ \E c \in {Contigs[i] : i \in 1..Len(Contigs)}, span \in Spans, far \in BOOLEAN :
          TbEmit(c, span, far)
    \/ TbClose
    \/ TbLoad
    \/ TrEmitHeader
    \/ \E c \in {Contigs[i] : i \in 1..Len(Contigs)}, span \in TrSpans : TrEmit(c, span)
    \/ TrClose
    \/ TrLoad

(***************************************************************************)
(* VCF.open: the data file and the index that VCF(path, mode) opens.       *)
(***************************************************************************)
\* A path is the list of the parts of a file name, each suffix a part of its own; a
\* mode is the list of its characters.
OpPaths ==
    { <<"x", ".vcf">>, <<"x", ".g", ".vcf">>, <<"x", ".txt">>, <<"x", ".vcf", ".idx">>,
      <<"x", ".vcf", ".gz">>, <<"x", ".g", ".vcf", ".gz">>, <<"-">> }
OpModes == { <<"r">>, <<"w">>, <<"a">>, <<"r", "b">>, <<"w", "b">> }

\* the files that may exist beside the program: the data file at path, with VCF data
\* in it, and the index files path.tbi and path.csi
OpFileSets == SUBSET {"data", "tbi", "csi"}

\* path.endswith(suffix)
EndsWith(path, suffix) == path[Len(path)] = suffix

\* 'b' not in mode and mode + 'b' or mode
ModeB(mode) ==
    IF \E i \in 1..Len(mode) : mode[i] = "b" THEN mode ELSE mode \o <<"b">>

\* open has not run
NotOpened == [fp |-> "", index |-> "", err |-> "not opened"]
OpResult(fp, index, exc) == [fp |-> fp, index |-> index, err |-> exc]

\* io.open(path, mode) of the data file: the file must exist to be read
IoOpenFails(mode, files) == mode[1] = "r" /\ "data" \notin files

\* the files after io.open: modes w and a create the data file
IoOpenFiles(mode, files) ==
    IF mode[1] = "r" THEN files ELSE files \cup {"data"}

\* Tabix.__init__: load in read mode, from path.csi or else path.tbi, init in write mode
TabixNew(mode, files) ==
    IF mode[1] = "r"
    THEN IF "csi" \in files \/ "tbi" \in files THEN "" ELSE "FileNotFoundError"
    ELSE IF mode[1] = "w" THEN "" ELSE "IOError"

\* TribbleIndex.__init__(idxf, mode): the name must end in .idx; load reads the file
\* at that very path, here the data file, which does not hold an index
TribbleNew(path, mode) ==
    IF ~ EndsWith(path, ".idx") THEN "ValueError"
    ELSE IF mode[1] = "r" THEN "RuntimeError"
    ELSE IF mode[1] = "w" THEN "" ELSE "IOError"

\* BGZFile.__init__ on a path: io.open, then the mode must begin with r or w
BgzfOpen(mode, files) ==
    IF IoOpenFails(mode, files) THEN "FileNotFoundError"
    ELSE IF mode[1] \in {"r", "w"} THEN "" ELSE "IOError"

\* VCF.open(path, mode): self.fp and self.index, and the exception it ends with
VcfOpen(path, mode, files) ==
    IF EndsWith(path, ".gz")
    THEN IF BgzfOpen(mode, files) # ""
         THEN OpResult("", "", BgzfOpen(mode, files))
         ELSE IF TabixNew(mode, files) # ""
              THEN OpResult("bgzf", "", TabixNew(mode, files))
              ELSE OpResult("bgzf", "Tabix", "")
    ELSE IF path = <<"-">>
    THEN IF mode[1] = "r" THEN OpResult("", "", "RuntimeError")
         ELSE OpResult("stdout", "", "")
    ELSE IF IoOpenFails(mode, files) THEN OpResult("", "", "FileNotFoundError")
         ELSE IF TribbleNew(path, mode) # ""
              THEN OpResult("plain", "", TribbleNew(path, mode))
              ELSE OpResult("plain", "TribbleIndex", "")

\* the files after VCF.open
VcfOpenFiles(path, mode, files) ==
    IF path = <<"-">> THEN files ELSE IoOpenFiles(mode, files)

OpInit ==
    /\ opPath \in OpPaths
    /\ opMode \in OpModes
    /\ opFiles \in OpFileSets
    /\ opRes = NotOpened

OpIdle ==
    /\ opPath = <<"-">>
    /\ opMode = <<"r">>
    /\ opFiles = {}
    /\ opRes = OpResult("", "", "idle")

\* VCF.__init__ up to and including self.open(self.path, self.mode)
DoOpen ==
    /\ opRes = NotOpened
    /\ opRes' = VcfOpen(opPath, ModeB(opMode), opFiles)
    /\ opFiles' = VcfOpenFiles(opPath, ModeB(opMode), opFiles)
    /\ UNCHANGED <<opPath, opMode>>
    /\ UNCHANGED opOthers

NextOpen == DoOpen

(***************************************************************************)
(* An IntervalTree on its own: insert, then update; query is applied to    *)
(* the updated tree.                                                       *)
(***************************************************************************)
\* the intervals [a, b) with a < b given to insert
TreeIntervals == {i \in (0..MaxTreeCoord) \X (1..MaxTreeCoord) : i[1] < i[2]}

\* the data of the n-th interval inserted: a byte range like that of an index
TreeData(n) == <<n, n + 1>>

ItInit ==
    /\ itree = TreeNew
    /\ itPhase = "insert"

ItIdle ==
    /\ itree = TreeNew
    /\ itPhase = "idle"

\* insert(s, e, d)
ItInsert(i) ==
    /\ itPhase = "insert"
    /\ Len(itree.intvls) - 1 < MaxTreeIntvs
    /\ itree' = TreeInsert(itree, i[1], i[2], TreeData(Len(itree.intvls)))
    /\ UNCHANGED itPhase
    /\ UNCHANGED itOthers

\* update()
ItUpdate ==
    /\ itPhase = "insert"
    /\ itree' = TreeUpdate(itree)
    /\ itPhase' = "updated"
    /\ UNCHANGED itOthers

NextTree ==
    \/ \E i \in TreeIntervals : ItInsert(i)
    \/ ItUpdate

----------------------------------------------------------------------------
InitCut == CutInit /\ ShIdle /\ BgIdle /\ TbIdle /\ TrIdle /\ OpIdle /\ ItIdle
SpecCut == InitCut /\ [][NextCut]_vars

InitSharder == ShInit /\ CutIdle /\ BgIdle /\ TbIdle /\ TrIdle /\ OpIdle /\ ItIdle
SpecSharder == InitSharder /\ [][NextSharder]_vars

InitBGZF == BgInit /\ CutIdle /\ ShIdle /\ TbIdle /\ TrIdle /\ OpIdle /\ ItIdle
SpecBGZF == InitBGZF /\ [][NextBGZF]_vars

InitIndex ==
    /\ (TbInit /\ TrIdle) \/ (TrInit /\ TbIdle)
    /\ CutIdle /\ ShIdle /\ BgIdle /\ OpIdle /\ ItIdle
SpecIndex == InitIndex /\ [][NextIndex]_vars

InitOpen == OpInit /\ CutIdle /\ ShIdle /\ BgIdle /\ TbIdle /\ TrIdle /\ ItIdle
SpecOpen == InitOpen /\ [][NextOpen]_vars

InitTree == ItInit /\ CutIdle /\ ShIdle /\ BgIdle /\ TbIdle /\ TrIdle /\ OpIdle
SpecTree == InitTree /\ [][NextTree]_vars

Spec == SpecSharder

(***************************************************************************)
(* The claims.                                                             *)
(***************************************************************************)
\* the log entries of shard i among the first n, of one kind
LogCount(kind, i, n) == Cardinality({k \in 1..n : log[k] = <<kind, i>>})

\* C1: whatever order the workers complete in, the reduce-function and the accumulate
\* steps are called in ascending shard order: a shard is reduced and accumulated only
\* after every earlier shard has been, once per sub-interval, and never twice.
C1_ReduceInShardOrder ==
    /\ \A a, b \in 1..Len(log) : a < b => log[a][2] <= log[b][2]
    /\ \A k \in 1..Len(log) : \A j \in 0..(log[k][2] - 1) :
          /\ LogCount("reduce", j, k - 1) = Len(shards[j + 1])
          /\ LogCount("accum", j, k - 1) = Len(shards[j + 1])
    /\ \A i \in 0..(Len(shards) - 1) :
          /\ LogCount("reduce", i, Len(log)) <= Len(shards[i + 1])
          /\ LogCount("accum", i, Len(log)) <= Len(shards[i + 1])
          /\ i < idx => LogCount("reduce", i, Len(log)) = Len(shards[i + 1])

\* a later shard's result waits in the heap while earlier shards have been reduced
C1_Witness ==
    /\ idx > 0
    /\ Len(log) > 0
    /\ \E r \in q : r[1] > idx

\* the serial run of the example: every record the map-function keeps, in file order
SerialRun(file) == SelectSeq(file, LAMBDA v : v.keep)

\* C2: the output of a finished sharded run in which no map function raised holds
\* the records of the serial run, in the same order, each once.
C2_ShardedEqualsSerial ==
    (pc = "done" /\ thrown = <<>>) => out.lines = SerialRun(vcfIn)

\* C3: every shard cut yields but the last has total length step, and the last has a
\* total length from 1 to step.
C3_ShardLengths ==
    cutOut # NotCut =>
        \A k \in 1..Len(cutOut) :
            /\ k < Len(cutOut) => ShardLen(cutOut[k]) = cutStep
            /\ k = Len(cutOut) => ShardLen(cutOut[k]) \in 1..cutStep

\* cut has split an interval across shards and ends with a short remainder
C3_Witness ==
    /\ cutOut # NotCut
    /\ Len(cutOut) >= 2
    /\ ShardLen(cutOut[Len(cutOut)]) < cutStep
    /\ \E k \in 1..Len(cutOut) : Len(cutOut[k]) >= 2
    /\ \E k \in 1..Len(cutIntvs) : cutIntvs[k][3] - cutIntvs[k][2] > cutStep

\* C4: whatever the writes the data x was split into, once the writer is closed a
\* read() of the whole file from offset 0 returns exactly x.
C4_RoundTrip ==
    closes >= 1 =>
        LET res == ReadOp(bgw.file, FreshReader, -1)
        IN  ~ res.err /\ res.data = written

\* data longer than a block, closed with a partly filled block pending
C4_Witness ==
    /\ closes >= 1
    /\ Len(written) > BlockSize
    /\ Len(bgw.file) >= 3
    /\ \E k \in 1..Len(bgw.file) : bgw.file[k].isize \in 1..(BlockSize - 1)

\* C5: after one or more calls of close the file is the data blocks, the pending one
\* flushed, followed by the EOF block: _write_eof has run once, and a later close has
\* left the file as the first close wrote it.
C5_OneEofBlock ==
    closes >= 1 =>
        LET n == Len(bgw.file)
        IN  /\ bgw.neof = 1
            /\ n >= 1
            /\ bgw.file[n] = EofBlock
            /\ bgw.file[n].length = 28
            /\ Flatten([k \in 1..(n - 1) |-> Inflate(bgw.file[k].body)]) = written
            /\ bgw.file = atClose

\* close was called twice, the first with a partly filled block pending
C5_Witness ==
    /\ closes = 2
    /\ Len(bgw.file) >= 3
    /\ bgw.file[Len(bgw.file) - 1].isize \in 1..(BlockSize - 1)

\* C6: with v the offset a sequential read (reader B) has reached, read(n) after
\* seek(v) on a reader in any state (reader A) returns the bytes and leaves the
\* position that read(n) does on the sequential reader.
C6_SeekEqualsSequential ==
    Readable =>
        \A n \in ReadSizes :
            LET a == ReadOp(bgw.file, SeekOp(rdA, rdB.pos), n)
                b == ReadOp(bgw.file, rdB, n)
            IN  /\ ~ a.err /\ ~ b.err
                /\ a.data = b.data
                /\ a.r.pos = b.r.pos

\* reader A holds another block than the one v lies in, and v lies inside a block
C6_Witness ==
    /\ Readable
    /\ rdA.block # NoBlock
    /\ rdA.block # <<>>
    /\ rdA.blkoff # rdB.pos \div 65536
    /\ rdA.pos \div 65536 = rdB.pos \div 65536
    /\ rdB.pos % 65536 > 0
    /\ ReadOp(bgw.file, rdB, 1).data # <<>>

----------------------------------------------------------------------------
\* the chunks, merged and so apart from each other, cover the bytes [ob, oa)
Covers(chunks, ob, oa) ==
    \E k \in 1..Len(chunks) : VLe(chunks[k][1], ob) /\ VLe(oa, chunks[k][2])

ContigSet == {Contigs[i] : i \in 1..Len(Contigs)}

\* C7: once the writer is closed (the final sentinel add has optimized every
\* contig), query(r.contig, r.start, r.end) on the built index covers the bytes of
\* every record r that was added.
C7_QueryCoversRecord ==
    (tbPhase \in {"saved", "loaded"} /\ Ordered(tbRecs)) =>
        \A i \in 1..Len(tbRecs) :
            Covers(TbQuery(tb, tbRecs[i].c, tbRecs[i].s, tbRecs[i].e),
                   tbRecs[i].ob, tbRecs[i].oa)

\* the queries asked of a binning index and of a Tribble index
TbQueries == Spans \cup {<<0, 1000>>, <<0, 1073741824>>}
TrQueries == TrSpans \cup {<<0, 1000>>, <<9000, 30001>>}

ApartV(ch) == \A k \in 1..(Len(ch) - 1) : VLt(ch[k][2], ch[k + 1][1])
ApartI(ch) == \A k \in 1..(Len(ch) - 1) : ch[k][2] < ch[k + 1][1]

\* C8: for a binning index, a linear index and an interval tree index, built or
\* loaded, consecutive chunks (b1, e1), (b2, e2) of a query's result have e1 < b2.
C8_ChunksApart ==
    /\ tbPhase \in {"saved", "loaded"} =>
          \A c \in ContigSet, qq \in TbQueries : ApartV(TbQuery(tb, c, qq[1], qq[2]))
    /\ tbPhase = "loaded" =>
          \A c \in ContigSet, qq \in TbQueries : ApartV(TbQuery(tbRd, c, qq[1], qq[2]))
    /\ trPhase \in {"saved", "loaded"} =>
          \A c \in ContigSet, qq \in TrQueries : ApartI(TrQuery(tr, c, qq[1], qq[2]))
    /\ trPhase = "loaded" =>
          \A c \in ContigSet, qq \in TrQueries : ApartI(TrQuery(trRd, c, qq[1], qq[2]))

\* a loaded interval tree index answers a query with two chunks
C8_Witness ==
    /\ trPhase = "loaded"
    /\ trRd.type = INDEX_TYPE_INTERVAL_TREE
    /\ \E c \in ContigSet, qq \in TrQueries : Len(TrQuery(trRd, c, qq[1], qq[2])) >= 2

\* the offsets before the first and after the last record of contig c
RecsOf(c) == {i \in 1..Len(tbRecs) : tbRecs[i].c = c}
FirstByte(c) == tbRecs[SetMin(RecsOf(c))].ob
LastByte(c) == tbRecs[SetMax(RecsOf(c))].oa

\* the ends L of the queries (c, 0, L)
QueryLens == {1000, 1073741824}

\* C9: on the index saved and loaded again, query(c, 0, L) covers the bytes of
\* every record of c that starts below L, and each of its chunks lies within the
\* bytes from the end of the last record before c to the end of c's last record.
C9_RoundTripPerContig ==
    (tbPhase = "loaded" /\ Ordered(tbRecs)) =>
        \A c \in ContigSet, L \in QueryLens :
            LET ch == TbQuery(tbRd, c, 0, L)
            IN  /\ \A i \in RecsOf(c) :
                      tbRecs[i].s < L => Covers(ch, tbRecs[i].ob, tbRecs[i].oa)
                /\ \A k \in 1..Len(ch) :
                      VLe(FirstByte(c), ch[k][1]) /\ VLe(ch[k][2], LastByte(c))

\* both contigs have records, the second two of them, and the query finds them
C9_Witness ==
    /\ tbPhase = "loaded"
    /\ Ordered(tbRecs)
    /\ RecsOf(Contigs[1]) # {}
    /\ Cardinality(RecsOf(Contigs[2])) >= 2
    /\ TbQuery(tbRd, Contigs[2], 0, 1073741824) # <<>>

\* 2^n >= L for an L below 2^31
ReachesLen(n, L) == n >= 31 \/ Pow2(n) >= L

\* the limit of the index as VCF_INDEX_TYPE sets it
OldShift == tbCfg.min_shift + 3 * tbCfg.depth

\* C10: the sentinel add(None, L, 0, off) of the header leaves
\* 2^(min_shift + 3*depth) >= L; when L was above 2^(min_shift + 3*depth) the magic
\* becomes CSI and depth the smallest that reaches L, and otherwise magic and depth
\* stay as they were; and after a promotion every record at or above the old limit
\* is covered by the query for it, on the built and on the loaded index.
C10_Promotion ==
    /\ [][(tbPhase = "new" /\ tbPhase' = "open") =>
            /\ ReachesLen(tb'.min_shift + 3 * tb'.depth, tbLen)
            /\ tb'.max_shift = tb'.min_shift + 3 * tb'.depth
            /\ tb'.min_shift = tb.min_shift
            /\ IF tbLen > Pow2(tb.min_shift + 3 * tb.depth)
               THEN /\ tb'.magic = "CSI"
                    /\ tb'.depth > tb.depth
                    /\ ~ ReachesLen(tb'.min_shift + 3 * (tb'.depth - 1), tbLen)
               ELSE tb'.magic = tb.magic /\ tb'.depth = tb.depth]_vars
    /\ []((tbPhase \in {"saved", "loaded"} /\ Ordered(tbRecs) /\ tbLen > Pow2(OldShift)) =>
            \A i \in 1..Len(tbRecs) :
                tbRecs[i].s >= Pow2(OldShift) =>
                    /\ Covers(TbQuery(tb, tbRecs[i].c, tbRecs[i].s, tbRecs[i].e),
                              tbRecs[i].ob, tbRecs[i].oa)
                    /\ tbPhase = "loaded" =>
                          Covers(TbQuery(tbRd, tbRecs[i].c, tbRecs[i].s, tbRecs[i].e),
                                 tbRecs[i].ob, tbRecs[i].oa))

\* L = 2^30 on a TBI index of depth 5 gave CSI with depth 6, and a record above
\* 2^29 is found in the loaded index
C10_Witness ==
    /\ tbPhase = "loaded"
    /\ Ordered(tbRecs)
    /\ tbCfg.magic = "TBI" /\ tbCfg.depth = 5 /\ tbLen = 1073741824
    /\ tbRd.magic = "CSI" /\ tbRd.depth = 6
    /\ \E i \in 1..Len(tbRecs) :
          /\ tbRecs[i].s > 536870912
          /\ Covers(TbQuery(tbRd, tbRecs[i].c, tbRecs[i].s, tbRecs[i].e),
                    tbRecs[i].ob, tbRecs[i].oa)

----------------------------------------------------------------------------
TrRecsOf(c) == {i \in 1..Len(trRecs) : trRecs[i].c = c}

\* the largest end - start over the records of contig c
LongestOf(c) == SetMax({trRecs[i].e - trRecs[i].s : i \in TrRecsOf(c)})

Overlaps(r, qq) == r.s < qq[2] /\ r.e > qq[1]

\* what C11 says of the linear index t
LinearWidened(t) ==
    \A c \in DOMAIN t.ix, qq \in TrQueries :
        LET ci == t.ix[c]
            res == LinearQuery(ci, qq[1], qq[2])
            bin == (Max(qq[1], LongestOf(c)) - LongestOf(c)) \div ci.width
        IN  /\ res # <<>> => bin < Len(ci.blocks) /\ res[1][1] = ci.blocks[bin + 1]
            /\ \A i \in TrRecsOf(c) :
                  Overlaps(trRecs[i], qq) => res # <<>> /\ res[1][1] <= trRecs[i].ob

\* C11: on a linear index built by in-order adds and done(), and on the same index
\* loaded again, the range of query(s, e) begins at the offset stored for the bin
\* of max(s, longest) - longest, and that offset is at or before the start offset
\* of every added record that overlaps [s, e).
C11_LinearWidening ==
    (tr.type = INDEX_TYPE_LINEAR /\ Ordered(trRecs)) =>
        /\ trPhase \in {"saved", "loaded"} => LinearWidened(tr)
        /\ trPhase = "loaded" => LinearWidened(trRd)

\* a contig whose longest record spans more than one base, and a query beyond
\* longest that begins after the contig's first bin and has a record to find
C11_Witness ==
    /\ trPhase = "loaded"
    /\ tr.type = INDEX_TYPE_LINEAR
    /\ Ordered(trRecs)
    /\ \E c \in DOMAIN trRd.ix, qq \in TrQueries :
          LET res == LinearQuery(trRd.ix[c], qq[1], qq[2])
          IN  /\ trRd.ix[c].longest > 1
              /\ qq[1] > trRd.ix[c].longest
              /\ res # <<>>
              /\ res[1][1] > trRd.ix[c].blocks[1]
              /\ \E i \in TrRecsOf(c) : Overlaps(trRecs[i], qq)

----------------------------------------------------------------------------
\* the offset after the last record of contig c
TrLastByte(c) == trRecs[SetMax(TrRecsOf(c))].oa

\* what C12 says of the linear index t
LinearTerminal(t) ==
    \A c \in DOMAIN t.ix :
        LET blocks == t.ix[c].blocks
        IN  /\ blocks[Len(blocks)] = TrLastByte(c)
            /\ \A qq \in TrQueries :
                  LET res == LinearQuery(t.ix[c], qq[1], qq[2])
                  IN  res # <<>> => res[1][2] = TrLastByte(c)

\* C12: after done() on a linear contig builder, rescaled by optimize or not, the
\* last entry of blocks is the offset after the contig's last record, and every
\* query range ends there.
C12_LinearTerminalOffset ==
    (tr.type = INDEX_TYPE_LINEAR /\ Ordered(trRecs)) =>
        /\ trPhase \in {"saved", "loaded"} => LinearTerminal(tr)
        /\ trPhase = "loaded" => LinearTerminal(trRd)

\* the ranges, merged and so apart from each other, cover the bytes [ob, oa)
CoversI(chunks, ob, oa) ==
    \E k \in 1..Len(chunks) : chunks[k][1] <= ob /\ oa <= chunks[k][2]

\* the intervals of a tree, the last one left out
RealIntvls(tree) == {tree.intvls[k] : k \in 1..Len(tree.intvls)} \ {TreeLast}

\* every record of c lies within the positions of the interval that holds its bytes
IntervalsSpan(t, c) ==
    \A v \in RealIntvls(t.ix[c].tree), i \in TrRecsOf(c) :
        (v[3][1] <= trRecs[i].ob /\ trRecs[i].oa <= v[3][2]) =>
            v[1] <= trRecs[i].s /\ trRecs[i].e <= v[2]

\* the query for each record of c covers the record's bytes
OwnQueryCovers(t, c) ==
    \A i \in TrRecsOf(c) :
        CoversI(ITreeQuery(t.ix[c], trRecs[i].s, trRecs[i].e), trRecs[i].ob, trRecs[i].oa)

\* C13: after in-order adds and done() on an interval tree index, every interval
\* spans from the least start to the greatest end of the records grouped into it,
\* and query(r.start, r.end) covers the bytes of every added record r.
C13_IntervalSpansGroup ==
    (tr.type = INDEX_TYPE_INTERVAL_TREE /\ Ordered(trRecs)
        /\ trPhase \in {"saved", "loaded"}) =>
        \A c \in DOMAIN tr.ix : IntervalsSpan(tr, c) /\ OwnQueryCovers(tr, c)

----------------------------------------------------------------------------
\* the add is for the contig of the last accepted record and starts before it
StartsBefore(recs, a) ==
    recs # <<>> /\ a.c = recs[Len(recs)].c /\ a.s < recs[Len(recs)].s

\* C14: an add for the current contig that starts before the previous add fails
\* with an assertion error, in the binning and in the Tribble builder, and leaves
\* the per-contig entries, the contig order, the current contig, the position and
\* the running end offset as they were; no such add is accepted.
C14_AssertLeavesState ==
    [][/\ (tbPhase = "open" /\ tbPhase' = "failed") =>
             /\ StartsBefore(tbRecs, tbRejected')
             /\ tb'.err = "assert"
             /\ tb'.ix = tb.ix /\ tb'.names = tb.names /\ tb'.ci = tb.ci
             /\ tb'.pos = tb.pos /\ tb'.end = tb.end
       /\ (tbPhase = "open" /\ Len(tbRecs') > Len(tbRecs)) =>
             ~ StartsBefore(tbRecs, tbRecs'[Len(tbRecs')])
       /\ (trPhase = "open" /\ trPhase' = "failed") =>
             /\ StartsBefore(trRecs, trRejected')
             /\ tr'.err = "assert"
             /\ tr'.ix = tr.ix /\ tr'.names = tr.names /\ tr'.ci = tr.ci
             /\ tr'.pos = tr.pos /\ tr'.end = tr.end
       /\ (trPhase = "open" /\ Len(trRecs') > Len(trRecs)) =>
             ~ StartsBefore(trRecs, trRecs'[Len(trRecs')])]_vars

\* a binning builder has refused an add that starts before the previous one
C14_Witness ==
    /\ tbPhase = "failed"
    /\ StartsBefore(tbRecs, tbRejected)
    /\ tb.err = "assert"

\* C15: the builders accept adds in non-decreasing contig order only: an add for
\* a contig that was left for another one is refused, so no accepted history of
\* either builder is out of order.
C15_RevisitRejected == Ordered(tbRecs) /\ Ordered(trRecs)

----------------------------------------------------------------------------
\* C17: a reader validates the CRC32 and the ISIZE of each block against the
\* inflated payload: a read of a file whose block carries another CRC32 or another
\* ISIZE than the written one fails and returns no data.
C17_DamagedBlockRefused ==
    dmg # NoDamage => dmg.err

\* C18: a write on a writer that was closed raises an error and neither buffers
\* the data nor moves the position.
C18_WriteAfterCloseRaises ==
    [][late' > late =>
          /\ bgw'.err # ""
          /\ bgw'.block = bgw.block
          /\ bgw'.pos = bgw.pos]_vars

----------------------------------------------------------------------------
\* C19: an exception of any type that a map function raises in a worker, the
\* timeout and stop-iteration types included, is raised again at the driver: once
\* it.next has delivered it, run has ended with that exception, and has neither
\* returned normally nor gone on without the shard.
C19_WorkerErrorReraised ==
    thrown # <<>> => (pc = "raised" /\ err = thrown[1][2])

\* C20: whenever run ends with an error (KeyboardInterrupt, the exception of a
\* worker, an exception of the reduce function or of an accumulate step) the pool
\* has been terminated before run is left.
C20_PoolTerminatedOnError ==
    pc = "raised" => pool = "terminate"

----------------------------------------------------------------------------
\* C16: VCF.open pairs the data file with an index by path: a path ending in .gz
\* opens a BGZF file with a binning index; the path '-' is refused in read mode;
\* every other path opens a plain file with a TribbleIndex, and does so without an
\* error when the mode and the files allow the data file to be opened.
C16_OpenPairsByPath ==
    (opRes # NotOpened /\ opRes.err # "idle") =>
        LET mode == ModeB(opMode)
            CanOpen == mode[1] = "w" \/ (mode[1] = "r" /\ "data" \in opFiles)
        IN  /\ (EndsWith(opPath, ".gz") /\ opRes.err = "") =>
                   (opRes.fp = "bgzf" /\ opRes.index = "Tabix")
            /\ (opPath = <<"-">> /\ mode[1] = "r") => opRes.err = "RuntimeError"
            /\ (~ EndsWith(opPath, ".gz") /\ opPath # <<"-">> /\ CanOpen) =>
                   /\ opRes.fp = "plain"
                   /\ (opRes.err = "" => opRes.index = "TribbleIndex")
                   /\ (~ EndsWith(opPath, ".idx") => opRes.err = "")

----------------------------------------------------------------------------
\* the input intervals that are not empty, in their order
NonEmptyIntvs(intvs) == SelectSeq(intvs, LAMBDA i : i[2] < i[3])

\* the pieces, in order, are the intervals in order, each interval as a run of
\* pieces that starts at its start, goes on where the piece before ended and stops
\* at its end; s is the position reached in the first interval
RECURSIVE PiecesTile(_, _, _)
PiecesTile(pieces, intvs, s) ==
    IF intvs = <<>> THEN pieces = <<>>
    ELSE IF pieces = <<>> THEN FALSE
    ELSE LET p == Head(pieces)
             i == Head(intvs)
         IN  /\ p[1] = i[1]
             /\ p[2] = s
             /\ p[2] < p[3]
             /\ p[3] <= i[3]
             /\ IF p[3] < i[3] THEN PiecesTile(Tail(pieces), intvs, p[3])
                ELSE IF Len(intvs) = 1 THEN Tail(pieces) = <<>>
                ELSE PiecesTile(Tail(pieces), Tail(intvs), intvs[2][2])

\* C26: cut partitions its input: every emitted sub-interval is non-empty, and the
\* sub-intervals in emission order, the adjacent pieces of one input interval
\* joined, are the non-empty input intervals in their order, without a gap, an
\* overlap or a duplicate.
C26_CutPartitions ==
    cutOut # NotCut =>
        LET pieces == Flatten(cutOut)
            intvs == NonEmptyIntvs(cutIntvs)
        IN  /\ \A k \in 1..Len(pieces) : pieces[k][2] < pieces[k][3]
            /\ PiecesTile(pieces, intvs, IF intvs = <<>> THEN 0 ELSE intvs[1][2])

\* cut has split an interval across shards, has put pieces of two intervals into
\* one shard, and was given an empty interval and two intervals that touch
C26_Witness ==
    /\ cutOut # NotCut
    /\ Len(cutIntvs) = 2
    /\ cutIntvs[1][1] = cutIntvs[2][1] /\ cutIntvs[1][3] = cutIntvs[2][2]
    /\ Len(Flatten(cutOut)) > 2
    /\ \E k \in 1..Len(cutOut) : Len(cutOut[k]) >= 2
    /\ Len(cutOut) >= 2
    /\ ShardLen(cutOut[Len(cutOut)]) < cutStep

\* cut was given an empty interval between or beside non-empty ones
C26_WitnessEmpty ==
    /\ cutOut # NotCut
    /\ cutOut # <<>>
    /\ \E k \in 1..Len(cutIntvs) : cutIntvs[k][2] = cutIntvs[k][3]

----------------------------------------------------------------------------
\* every result of a map function was delivered as a result, none as an exception
AllDelivered == thrown = <<>>

\* C25: after each pass of the driver's loop every result still in the heap has a
\* shard index greater than the next-expected index idx; and when the result stream
\* has ended with all N shards delivered, the heap is empty, idx is N, and each
\* shard has been reduced and accumulated once per sub-interval.
C25_HeapAboveIdx ==
    /\ \A r \in q : r[1] > idx
    /\ (pc = "done" /\ AllDelivered) =>
          /\ q = {}
          /\ idx = Len(shards)
          /\ \A i \in 0..(Len(shards) - 1) :
                /\ LogCount("reduce", i, Len(log)) = Len(shards[i + 1])
                /\ LogCount("accum", i, Len(log)) = Len(shards[i + 1])

\* a run of three or more shards on two workers has returned normally
C25_Witness ==
    /\ pc = "done"
    /\ AllDelivered
    /\ Len(shards) >= 3
    /\ nproc >= 2
    /\ idx = Len(shards)

----------------------------------------------------------------------------
\* the records of the file on contig c that overlap [s, e), in file order
OverlapRecs(file, cse) ==
    SelectSeq(file, LAMBDA v : v.chrom = cse[1] /\ v.pos < cse[3] /\ v.end > cse[2])

\* C22: a range view VCFReader(vcf, c, s, e) over a coordinate-sorted file yields
\* exactly the records of contig c with pos < e and end > s, each once and in file
\* order; this for the sub-intervals of every shard handed to a worker.
C22_ReaderYieldsOverlap ==
    \A k \in 1..ntask : \A j \in 1..Len(shards[k]) :
        ReaderYield(vcfIn, shards[k][j]) = OverlapRecs(vcfIn, shards[k][j])

----------------------------------------------------------------------------
\* C21: every temporary file of a per-shard writer is gone by the time run exits:
\* after a return as after an exception, no temporary file exists.
C21_TempFilesDeleted ==
    pc \in {"done", "raised"} => tmpFiles = {}

----------------------------------------------------------------------------
\* the chunks are sorted by their begin, none overlaps or touches the next
ChunksSortedApart(chunks) ==
    /\ \A k \in 1..Len(chunks) : VLe(chunks[k][1], chunks[k][2])
    /\ \A k \in 1..(Len(chunks) - 1) : VLt(chunks[k][2], chunks[k + 1][1])

\* the linear array, as its runs, does not decrease
IntvsNonDecreasing(runs) ==
    \A k \in 1..(Len(runs) - 1) : VLe(runs[k][2], runs[k + 1][2])

\* C23: after in-order adds with growing offsets, before and after optimize, in
\* every contig's entry each bin's chunks are sorted by begin and pairwise apart, a
\* chunk that would begin where the bin's last one ends having been joined to it,
\* and the linear array intvs is non-decreasing.
C23_ChunksSorted ==
    (tbPhase \in {"open", "saved", "loaded"} /\ Ordered(tbRecs)) =>
        \A c \in DOMAIN tb.ix :
            /\ \A b \in DOMAIN tb.ix[c].bins : ChunksSortedApart(tb.ix[c].bins[b].chunks)
            /\ IntvsNonDecreasing(tb.ix[c].intvs)

\* an open builder holds a bin whose one chunk was joined from two records
C23_Witness ==
    /\ tbPhase = "open"
    /\ Ordered(tbRecs)
    /\ Len(tbRecs) >= 2
    /\ \E c \in DOMAIN tb.ix : \E b \in DOMAIN tb.ix[c].bins :
          /\ Len(tb.ix[c].bins[b].chunks) = 1
          /\ \E i \in 1..(Len(tbRecs) - 1) :
                /\ tb.ix[c].bins[b].chunks[1][1] = tbRecs[i].ob
                /\ tb.ix[c].bins[b].chunks[1][2] = tbRecs[i + 1].oa

\* an optimized entry holds a bin with two chunks, and a linear array of two values
C23_WitnessOptimized ==
    /\ tbPhase = "saved"
    /\ Ordered(tbRecs)
    /\ \E c \in DOMAIN tb.ix :
          /\ \E b \in DOMAIN tb.ix[c].bins : Len(tb.ix[c].bins[b].chunks) >= 2
          /\ Len(tb.ix[c].intvs) >= 2

----------------------------------------------------------------------------
\* the intervals of the tree that were inserted: all but the tree's own last one
Inserted(tree) == {tree.intvls[k] : k \in 1..Len(tree.intvls)} \ {TreeLast}

\* C24: once update has been called, query(s, e) with s < e returns the data of
\* exactly the inserted intervals [a, b) with a < e and b > s, and never the data
\* of the tree's own last interval.
C24_TreeQueryExact ==
    itPhase = "updated" =>
        \A s \in 0..MaxTreeCoord : \A e \in (s + 1)..(MaxTreeCoord + 1) :
            /\ TreeQuery(itree, s, e) =
                  {i[3] : i \in {x \in Inserted(itree) : x[1] < e /\ x[2] > s}}
            /\ NoData \notin TreeQuery(itree, s, e)

\* an updated tree of three intervals, one inside another and one apart from it,
\* with a query that meets some of them only
C24_Witness ==
    /\ itPhase = "updated"
    /\ Cardinality(Inserted(itree)) = 3
    /\ \E x, y, z \in Inserted(itree) :
          /\ x[1] < y[1] /\ y[2] < x[2]
          /\ x[2] <= z[1]
          /\ TreeQuery(itree, y[1], y[2]) = {x[3], y[3]}
====
